---- MODULE Spec2Model ----
(***************************************************************************)
(* Memoir: the memory relevance, conflict and lifecycle engine.            *)
(*                                                                         *)
(* Numbers.  Python floats are modelled in fixed point: a score s is the   *)
(* integer 1000*s ("milli").  The relevance score is kept exact, in units  *)
(* of 10^-7.  Time is a day number; a timestamp is the day it was written. *)
(*                                                                         *)
(* Texts.  A text is a sequence of tokens.  lower() maps every token to    *)
(* its lower-case form, split() gives the tokens, and a keyword phrase is  *)
(* matched on whole tokens (Python's `in` matches substrings; the texts    *)
(* used here hold no keyword inside a longer word).                        *)
(*                                                                         *)
(* Memories.  The Chroma collection is `store`, a sequence of              *)
(* [id, content, metadata] in insertion order.  A memory dict handed       *)
(* around by the code is [id, ref, content, metadata]: `id` is the 'id'    *)
(* key of the dict (NoId when the code set it to None), `ref` is the       *)
(* collection id the dict was read from, kept only to state properties.    *)
(***************************************************************************)
EXTENDS Integers, Sequences, FiniteSets, TLC

VARIABLES
    store,        \* the collection: Seq of [id, content, metadata]
    nextId,       \* next fresh id (uuid4 in add_memory)
    tick,         \* clock position; the day is DayOf(tick)
    runs,         \* lifecycle calls made so far (bounded by MaxRuns)
    last,         \* what the last operation did and returned
    inp,          \* the arguments of a function checked on its own
    out           \* its result

vars == <<store, nextId, tick, runs, last, inp, out>>

----------------------------------------------------------------------------
(* Bounds of the model *)

MaxStore == 2
MaxTicks == 1
MaxRuns == 3

----------------------------------------------------------------------------
(* Fixed point and small helpers *)

\* One unit of a score: 1.0 is Scale, 0.001 is 1.
Scale == 10 * 10 * 10
NoId == 0
Absent == 0 - 1

Min(a, b) == IF a < b THEN a ELSE b
Max(a, b) == IF a > b THEN a ELSE b

RECURSIVE Pow2(_)
Pow2(n) == IF n = 0 THEN 1 ELSE 2 * Pow2(n - 1)

Ln2 == 693

\* math.exp(-x/1000) in milli, x >= 0: e^-x = 2^-q * e^-r with x = q*ln2 + r,
\* e^-r by its Taylor polynomial.  A float exp() of a finite argument this
\* small is positive, so the result never rounds down to 0.
ExpNeg(x) ==
    LET q  == x \div Ln2
        r  == x % Ln2
        t2 == (r * r) \div (2 * Scale)
        t3 == (t2 * r) \div (3 * Scale)
        t4 == (t3 * r) \div (4 * Scale)
        e  == Scale - r + t2 - t3 + t4
    IN  IF q > 20 THEN 1 ELSE Max(1, e \div Pow2(q))

\* math.log(n) in milli for the counts the model reaches.
Ln(n) == <<0, 693, 1099, 1386, 1609, 1792, 1946, 2079>>[n]

----------------------------------------------------------------------------
(* Texts *)

LowerTok(t) ==
    CASE t = "I" -> "i"
      [] t = "I'm" -> "i'm"
      [] t = "PREFER" -> "prefer"
      [] t = "HOME" -> "home"
      [] t = "User:" -> "user:"
      [] t = "Assistant:" -> "assistant:"
      [] OTHER -> t

Lower(text) == [i \in DOMAIN text |-> LowerTok(text[i])]

ContainsPhrase(text, phrase) ==
    \E i \in 1..(Len(text) - Len(phrase) + 1) :
        SubSeq(text, i, i + Len(phrase) - 1) = phrase

AnyPhrase(text, phrases) == \E p \in phrases : ContainsPhrase(text, p)

HasDigit(text) == \E i \in DOMAIN text : text[i] \in {"3", "2024"}

WordSet(content) == {LowerTok(content[i]) : i \in DOMAIN content}

----------------------------------------------------------------------------
(* memory_types.py *)

DEFAULT_IMPORTANCE == 500

DECAY_HALF_LIFE_DAYS(mtype) ==
    CASE mtype = "core" -> 3650
      [] mtype = "preference" -> 365
      [] mtype = "fact" -> 730
      [] mtype = "procedural" -> 1095
      [] mtype = "episodic" -> 90
      [] mtype = "temporal" -> 14
      [] mtype = "conversation" -> 7
      [] OTHER -> 90

----------------------------------------------------------------------------
(* intelligence.py: MemoryScorer *)

IdentityKeywords ==
    { <<"my", "name", "is">>, <<"i", "am">>, <<"i'm">>,
      <<"i", "work", "as">>, <<"i", "live", "in">> }

PreferenceKeywords ==
    { <<"i", "like">>, <<"i", "love">>, <<"i", "prefer">>,
      <<"i", "enjoy">>, <<"i", "hate">> }

EpisodicKeywords ==
    { <<"today">>, <<"yesterday">>, <<"last">>,
      <<"this", "morning">>, <<"this", "evening">> }

ProceduralKeywords ==
    { <<"how", "to">>, <<"steps">>, <<"procedure">>, <<"workflow">> }

TemporalKeywords ==
    { <<"until">>, <<"by">>, <<"deadline">>, <<"tomorrow">>, <<"next", "week">> }

calculate_importance(content, is_user_explicit) ==
    IF content = <<>> THEN DEFAULT_IMPORTANCE
    ELSE LET l == Lower(content)
             score == 500
                 + (IF AnyPhrase(l, IdentityKeywords) THEN 300 ELSE 0)
                 + (IF AnyPhrase(l, PreferenceKeywords) THEN 200 ELSE 0)
                 + (IF HasDigit(l) THEN 50 ELSE 0)
                 + (IF is_user_explicit THEN 100 ELSE 0)
         IN  Max(0, Min(Scale, score))

classify_type(content) ==
    LET text == Lower(content)
    IN  IF AnyPhrase(text, IdentityKeywords) THEN "core"
        ELSE IF AnyPhrase(text, PreferenceKeywords \cup {<<"allergic">>})
            THEN "preference"
        ELSE IF AnyPhrase(text, EpisodicKeywords) THEN "episodic"
        ELSE IF AnyPhrase(text, ProceduralKeywords) THEN "procedural"
        ELSE IF AnyPhrase(text, TemporalKeywords) THEN "temporal"
        ELSE "fact"

RECURSIVE SumSeq(_)
SumSeq(s) == IF s = <<>> THEN 0 ELSE Head(s) + SumSeq(Tail(s))

\* len(text.strip()) of a text written out with single spaces.
CharLen(text) ==
    IF text = <<>> THEN 0
    ELSE SumSeq([i \in DOMAIN text |-> Len(text[i])]) + Len(text) - 1

----------------------------------------------------------------------------
(* intelligence.py: TemporalManager *)

\* A timestamp string that datetime.fromisoformat rejects.
Unparseable == 0 - 2

\* timestamp is always written by add_memory; Absent stands for a metadata
\* dict without 'timestamp' and 'created_at'.  On a string that does not
\* parse, ts is datetime.now(), the clock `now` defaults to (no caller passes
\* a `now` of its own).
calculate_decay_strength(metadata, now) ==
    IF metadata.timestamp = Absent THEN Scale
    ELSE LET ts        == IF metadata.timestamp = Unparseable THEN now
                          ELSE metadata.timestamp
             days_old  == Max(0, now - ts)
             half_life == DECAY_HALF_LIFE_DAYS(metadata.memory_type)
         IN  ExpNeg((Ln2 * days_old) \div half_life)

----------------------------------------------------------------------------
(* memory_manager.py and the Chroma collection *)

NoList == [kind |-> "absent", ids |-> <<>>]

\* A metadata dict with none of the keys the engine uses.
EmptyMeta ==
    [ memory_type |-> "", importance |-> Absent, timestamp |-> Absent,
      access_count |-> Absent, last_accessed |-> Absent,
      decay_strength |-> Absent, last_maintenance |-> Absent,
      is_archived |-> FALSE, archive_reason |-> "",
      confidence |-> Absent, source_type |-> "",
      consolidated_from |-> NoList, superseded_by |-> <<>> ]

\* {**current_metadata, **metadata_updates}
Merge(current, updates) ==
    [k \in DOMAIN current |-> IF k \in DOMAIN updates THEN updates[k] ELSE current[k]]

Ids(st) == {st[i].id : i \in DOMAIN st}
Rec(st, id) == st[CHOOSE i \in DOMAIN st : st[i].id = id]

\* MemoryManager.add_memory: metadata.update({...}) overrides the caller's
\* memory_type, importance, timestamp, access_count and last_accessed.
add_memory(st, id, text, memory_type, importance, metadata, now) ==
    Append(st, [ id |-> id, content |-> text,
                 metadata |-> Merge(metadata,
                     [ memory_type |-> memory_type, importance |-> importance,
                       timestamp |-> now, access_count |-> 0,
                       last_accessed |-> now ]) ])

add_fact_memory(st, id, fact, importance, metadata, now) ==
    add_memory(st, id, fact, "fact", importance, metadata, now)

add_preference_memory(st, id, preference, importance, now) ==
    add_memory(st, id, preference, "preference", importance, EmptyMeta, now)

\* MemoryManager.get_user_memories: every dict has "id": None.
get_user_memories(st) ==
    [i \in DOMAIN st |->
        [id |-> NoId, ref |-> st[i].id, content |-> st[i].content,
         metadata |-> st[i].metadata]]

\* chroma_client.get_memories_by_user: the dicts carry their ids.
get_memories_with_ids(st) ==
    [i \in DOMAIN st |->
        [id |-> st[i].id, ref |-> st[i].id, content |-> st[i].content,
         metadata |-> st[i].metadata]]

\* MemoryManager.update_memory_metadata: [ok, store]
update_memory_metadata(st, memory_id, metadata_updates) ==
    IF memory_id \notin Ids(st) THEN [ok |-> FALSE, store |-> st]
    ELSE [ok |-> TRUE,
          store |-> [i \in DOMAIN st |->
              IF st[i].id = memory_id
              THEN [st[i] EXCEPT !.metadata = Merge(@, metadata_updates)]
              ELSE st[i]]]

\* MemoryManager.delete_memory: collection.delete of an id that is not there
\* raises nothing, so the result is True either way.
delete_memory(st, memory_id) ==
    [ok |-> TRUE, store |-> SelectSeq(st, LAMBDA r : r.id # memory_id)]

IsArchived(metadata) == metadata.is_archived
Active(st) == {i \in DOMAIN st : ~IsArchived(st[i].metadata)}

----------------------------------------------------------------------------
(* lifecycle_manager.py: MemoryLifecycleManager *)

consolidation_threshold == 5
expiration_threshold == 100

\* metadata.get(key, default)
GetOr(v, default) == IF v = Absent THEN default ELSE v

_calculate_access_boost(metadata, now) ==
    IF metadata.last_accessed = Absent THEN Scale
    ELSE LET days_since_access == now - metadata.last_accessed
             recency_boost     == ExpNeg((days_since_access * Scale) \div 30)
             frequency_boost   ==
                 Min(Ln(GetOr(metadata.access_count, 0) + 1) \div 10, 500)
         IN  Scale + recency_boost + frequency_boost

_get_type_importance_multiplier(memory_type) ==
    CASE memory_type = "core" -> 1500
      [] memory_type = "preference" -> 1300
      [] memory_type = "fact" -> 1200
      [] memory_type = "procedural" -> 1100
      [] memory_type = "episodic" -> 900
      [] memory_type = "temporal" -> 800
      [] memory_type = "conversation" -> 700
      [] OTHER -> 1000

\* base_importance * temporal_decay * access_boost * type_multiplier
NewImportance(metadata, now) ==
    LET base_importance == GetOr(metadata.importance, 500)
        temporal_decay  == calculate_decay_strength(metadata, now)
        access_boost    == _calculate_access_boost(metadata, now)
        type_multiplier == _get_type_importance_multiplier(metadata.memory_type)
        decayed == (base_importance * temporal_decay) \div Scale
        boosted == (decayed * access_boost) \div Scale
    IN  (boosted * type_multiplier) \div Scale

\* _update_importance_scores: [store, updated_count]
RECURSIVE UpdateFrom(_, _, _, _, _)
UpdateFrom(st, memories, i, now, updated_count) ==
    IF i > Len(memories) THEN [store |-> st, updated_count |-> updated_count]
    ELSE LET memory == memories[i]
         IN  IF memory.id # NoId
             THEN UpdateFrom(
                    update_memory_metadata(st, memory.id,
                        [ importance |-> NewImportance(memory.metadata, now),
                          decay_strength |->
                              calculate_decay_strength(memory.metadata, now),
                          last_maintenance |-> now ]).store,
                    memories, i + 1, now, updated_count + 1)
             ELSE UpdateFrom(st, memories, i + 1, now, updated_count)

_update_importance_scores(st, memories, now) == UpdateFrom(st, memories, 1, now, 0)

\* _handle_memory_expiration: [store, expired_count, archived_count]
RECURSIVE ExpireFrom(_, _, _, _, _, _)
ExpireFrom(st, memories, i, now, expired_count, archived_count) ==
    IF i > Len(memories)
    THEN [store |-> st, expired_count |-> expired_count,
          archived_count |-> archived_count]
    ELSE LET memory         == memories[i]
             memory_type    == memory.metadata.memory_type
             decay_strength == GetOr(memory.metadata.decay_strength, Scale)
             importance     == GetOr(memory.metadata.importance, 500)
         IN  IF decay_strength < expiration_threshold /\ memory.id # NoId
             THEN IF importance > 700 \/ memory_type \in {"core", "preference"}
                  THEN ExpireFrom(
                         update_memory_metadata(st, memory.id,
                             [ is_archived |-> TRUE,
                               archive_reason |-> "temporal_decay" ]).store,
                         memories, i + 1, now, expired_count, archived_count + 1)
                  ELSE ExpireFrom(delete_memory(st, memory.id).store,
                         memories, i + 1, now, expired_count + 1, archived_count)
             ELSE ExpireFrom(st, memories, i + 1, now, expired_count, archived_count)

_handle_memory_expiration(st, memories, now) ==
    ExpireFrom(st, memories, 1, now, 0, 0)

\* _calculate_memory_similarity: the token-set Jaccard ratio, kept as the
\* exact fraction num/den (0/1 when either text has no words).
_calculate_memory_similarity(mem1, mem2) ==
    LET words1 == WordSet(mem1.content)
        words2 == WordSet(mem2.content)
    IN  IF words1 = {} \/ words2 = {} THEN [num |-> 0, den |-> 1]
        ELSE [num |-> Cardinality(words1 \cap words2),
              den |-> Cardinality(words1 \cup words2)]

\* A threshold of 0.8 in place of 0.7.
AboveEightTenths(similarity) == similarity.num * 10 > 8 * similarity.den

\* similarity > 0.7
AboveThreshold(similarity) == similarity.num * 10 > 7 * similarity.den

\* The memories at the indices S, in list order.
RECURSIVE PickFrom(_, _, _)
PickFrom(memories, S, i) ==
    IF i > Len(memories) THEN <<>>
    ELSE (IF i \in S THEN <<memories[i]>> ELSE <<>>) \o PickFrom(memories, S, i + 1)

\* _find_memory_clusters: each unprocessed memory seeds a cluster of the later
\* unprocessed memories similar to the seed; clusters of 2 or more are kept.
RECURSIVE ClustersFrom(_, _, _)
ClustersFrom(memories, i, processed) ==
    IF i > Len(memories) THEN <<>>
    ELSE IF i \in processed THEN ClustersFrom(memories, i + 1, processed)
    ELSE LET similar == { j \in (i + 1)..Len(memories) :
                            /\ j \notin processed
                            /\ AboveThreshold(
                                 _calculate_memory_similarity(memories[i], memories[j])) }
             members == {i} \cup similar
             rest    == ClustersFrom(memories, i + 1, processed \cup members)
         IN  IF Cardinality(members) >= 2
             THEN <<PickFrom(memories, members, 1)>> \o rest
             ELSE rest

_find_memory_clusters(memories) == ClustersFrom(memories, 1, {})

RECURSIVE MaxImportance(_)
MaxImportance(memories) ==
    LET first == GetOr(Head(memories).metadata.importance, 500)
    IN  IF Len(memories) = 1 THEN first
        ELSE Max(first, MaxImportance(Tail(memories)))

\* The archive loop of _consolidate_cluster.
RECURSIVE ArchiveFrom(_, _, _)
ArchiveFrom(st, memories, i) ==
    IF i > Len(memories) THEN st
    ELSE IF memories[i].id # NoId
         THEN ArchiveFrom(
                update_memory_metadata(st, memories[i].id,
                    [is_archived |-> TRUE]).store,
                memories, i + 1)
         ELSE ArchiveFrom(st, memories, i + 1)

\* _consolidate_cluster: [ok, store, nextId].  consolidated_content is what
\* get_completion returned; list_ok says whether the collection took the
\* list-valued 'consolidated_from' (when it raises, the except clause returns
\* False before anything is written).
_consolidate_cluster(st, nid, cluster, consolidated_content, list_ok, now) ==
    IF consolidated_content = <<>> \/ CharLen(consolidated_content) < 10
    THEN [ok |-> FALSE, store |-> st, nextId |-> nid]
    ELSE LET base_importance == MaxImportance(cluster)
             consolidated_importance == Min((base_importance * 12) \div 10, Scale)
             with_ids == SelectSeq(cluster, LAMBDA m : m.id # NoId)
             metadata == Merge(EmptyMeta,
                 [ memory_type |-> cluster[1].metadata.memory_type,
                   importance |-> consolidated_importance,
                   consolidated_from |->
                       [kind |-> "list",
                        ids |-> [k \in DOMAIN with_ids |-> with_ids[k].id]],
                   source_type |-> "consolidated" ])
         IN  IF ~list_ok THEN [ok |-> FALSE, store |-> st, nextId |-> nid]
             ELSE [ok |-> TRUE,
                   store |-> ArchiveFrom(
                       add_fact_memory(st, nid, consolidated_content,
                           consolidated_importance, metadata, now),
                       cluster, 1),
                   nextId |-> nid + 1]

\* The memory types of a list in order of first appearance (the key order of
\* memories_by_type).
RECURSIVE TypesInOrder(_, _)
TypesInOrder(memories, seen) ==
    IF memories = <<>> THEN <<>>
    ELSE LET t == Head(memories).metadata.memory_type
         IN  IF t \in seen THEN TypesInOrder(Tail(memories), seen)
             ELSE <<t>> \o TypesInOrder(Tail(memories), seen \cup {t})

\* Every cluster _consolidate_related_memories hands to _consolidate_cluster.
RECURSIVE ClustersOfTypes(_, _)
ClustersOfTypes(memories, types) ==
    IF types = <<>> THEN <<>>
    ELSE LET type_memories ==
                 SelectSeq(memories, LAMBDA m : m.metadata.memory_type = Head(types))
             clusters == IF Len(type_memories) < 3 THEN <<>>
                         ELSE _find_memory_clusters(type_memories)
         IN  SelectSeq(clusters, LAMBDA c : Len(c) >= 3)
                 \o ClustersOfTypes(memories, Tail(types))

ClustersToConsolidate(memories) ==
    IF Len(memories) < consolidation_threshold THEN <<>>
    ELSE ClustersOfTypes(memories, TypesInOrder(memories, {}))

\* The loop over the clusters: [store, nextId, consolidated_count, done], done
\* the clusters consolidated with success.
RECURSIVE ConsolidateFrom(_, _, _, _, _, _, _, _)
ConsolidateFrom(st, nid, clusters, k, completions, list_ok, now, acc) ==
    IF k > Len(clusters)
    THEN [store |-> st, nextId |-> nid,
          consolidated_count |-> acc.count, done |-> acc.done]
    ELSE LET r == _consolidate_cluster(st, nid, clusters[k],
                      completions[Min(k, Len(completions))], list_ok, now)
         IN  ConsolidateFrom(r.store, r.nextId, clusters, k + 1, completions,
                 list_ok, now,
                 IF r.ok
                 THEN [count |-> acc.count + Len(clusters[k]),
                       done |-> Append(acc.done,
                           [size |-> Len(clusters[k]), new_id |-> nid,
                            refs |-> {clusters[k][j].ref : j \in DOMAIN clusters[k]}])]
                 ELSE acc)

_consolidate_related_memories(st, nid, memories, completions, list_ok, now) ==
    ConsolidateFrom(st, nid, ClustersToConsolidate(memories), 1, completions,
        list_ok, now, [count |-> 0, done |-> <<>>])

----------------------------------------------------------------------------
(* memory_manager.py: retrieve_memories *)

\* MemoryManager.retrieve_memories.  `ranking` is what collection.query gives
\* for the query: the user's records nearest first, each with its similarity
\* (1 - distance).  The only filter is the user id; every dict has "id": None.
retrieve_memories(st, ranking, top_k) ==
    [i \in 1..Min(top_k, Len(ranking)) |->
        [ id |-> NoId, ref |-> ranking[i].ref,
          content |-> Rec(st, ranking[i].ref).content,
          metadata |-> Rec(st, ranking[i].ref).metadata,
          similarity_score |-> ranking[i].sim ]]

----------------------------------------------------------------------------
(* advanced_retrieval.py: AdvancedMemoryRetrieval *)

\* 1.0 in the unit of a final score, 10^-7.
One == Scale * Scale * 10

\* A timestamp that is missing or does not parse gives the default 0.5.
_calculate_recency_score(memory, current_time) ==
    IF memory.metadata.timestamp \in {Absent, Unparseable} THEN 500
    ELSE LET days_diff == current_time - memory.metadata.timestamp
         IN  ExpNeg((Ln2 * days_diff) \div 30)

_calculate_access_bonus(memory) ==
    Min(Ln(GetOr(memory.metadata.access_count, 0) + 1) \div 10, 500)

_calculate_type_weight(memory) ==
    CASE memory.metadata.memory_type = "preference" -> 1000
      [] memory.metadata.memory_type = "fact" -> 900
      [] memory.metadata.memory_type = "conversation" -> 700
      [] OTHER -> 700

\* calculate_relevance_score: the final score, in units of 10^-7.
calculate_relevance_score(memory, current_time) ==
    LET semantic_score        == memory.similarity_score
        recency_score         == _calculate_recency_score(memory, current_time)
        importance_multiplier == GetOr(memory.metadata.importance, Scale)
        access_bonus          == _calculate_access_bonus(memory)
        type_weight           == _calculate_type_weight(memory)
        confidence_score      == GetOr(memory.metadata.confidence, Scale)
        final_score ==
            ( semantic_score * 4 + recency_score * 2 + access_bonus * 1
              + type_weight * 2 + confidence_score * 1 ) * importance_multiplier
    IN  Max(0, Min(One, final_score))

\* list.sort(key=score, reverse=True): descending and stable.
RECURSIVE InsertDesc(_, _)
InsertDesc(sorted, m) ==
    IF sorted = <<>> THEN <<m>>
    ELSE IF Head(sorted).score >= m.score
         THEN <<Head(sorted)>> \o InsertDesc(Tail(sorted), m)
         ELSE <<m>> \o sorted

\* A sort that is descending and puts equal scores in reverse order.
RECURSIVE SortDescTiesReversed(_)
SortDescTiesReversed(memories) ==
    IF memories = <<>> THEN <<>>
    ELSE InsertDesc(SortDescTiesReversed(Tail(memories)), Head(memories))

RECURSIVE SortDesc(_)
SortDesc(memories) ==
    IF memories = <<>> THEN <<>>
    ELSE InsertDesc(SortDesc(SubSeq(memories, 1, Len(memories) - 1)),
                    memories[Len(memories)])

FirstK(memories, k) == SubSeq(memories, 1, Min(k, Len(memories)))

\* _increment_access_count for each memory of a list, in order.
RECURSIVE IncrementFrom(_, _, _, _)
IncrementFrom(st, memories, i, now) ==
    IF i > Len(memories) THEN st
    ELSE IF memories[i].id # NoId
         THEN IncrementFrom(
                update_memory_metadata(st, memories[i].id,
                    [ access_count |->
                          GetOr(memories[i].metadata.access_count, 0) + 1,
                      last_accessed |-> now ]).store,
                memories, i + 1, now)
         ELSE IncrementFrom(st, memories, i + 1, now)

\* retrieve_memories_advanced: [store, result]
retrieve_memories_advanced(st, ranking, top_k, min_relevance, now) ==
    LET base_memories == retrieve_memories(st, ranking, top_k * 2)
        with_scores == [i \in DOMAIN base_memories |->
            [ id |-> base_memories[i].id, ref |-> base_memories[i].ref,
              content |-> base_memories[i].content,
              metadata |-> base_memories[i].metadata,
              similarity_score |-> base_memories[i].similarity_score,
              score |-> calculate_relevance_score(base_memories[i], now) ]]
        scored_memories ==
            SortDesc(SelectSeq(with_scores, LAMBDA m : m.score >= min_relevance))
        top == FirstK(scored_memories, top_k)
    IN  [store |-> IncrementFrom(st, top, 1, now), result |-> top]

----------------------------------------------------------------------------
(* contextual_retrieval.py: _select_optimal_memory_set *)

\* A ranked memory here is [ref, memory_type, score], score the
\* final_relevance_score in milli.
RECURSIVE FirstPass(_, _)
FirstPass(memories, acc) ==
    IF memories = <<>> THEN acc
    ELSE LET memory == Head(memories)
         IN  IF memory.score >= 600
             THEN FirstPass(Tail(memories),
                    [ selected |-> Append(acc.selected, memory),
                      memory_types_seen |->
                          acc.memory_types_seen \cup {memory.memory_type} ])
             ELSE FirstPass(Tail(memories), acc)

RECURSIVE SecondPass(_, _, _)
SecondPass(memories, acc, target_k) ==
    IF memories = <<>> \/ Len(acc.selected) >= target_k THEN acc
    ELSE LET memory == Head(memories)
         IN  IF memory.memory_type \notin acc.memory_types_seen
             THEN SecondPass(Tail(memories),
                    [ selected |-> Append(acc.selected, memory),
                      memory_types_seen |->
                          acc.memory_types_seen \cup {memory.memory_type} ],
                    target_k)
             ELSE IF memory.score >= 500
             THEN SecondPass(Tail(memories),
                    [ selected |-> Append(acc.selected, memory),
                      memory_types_seen |-> acc.memory_types_seen ],
                    target_k)
             ELSE SecondPass(Tail(memories), acc, target_k)

\* The second pass without the `break` on a full selection.
RECURSIVE SecondPassNoBreak(_, _)
SecondPassNoBreak(memories, acc) ==
    IF memories = <<>> THEN acc
    ELSE LET memory == Head(memories)
         IN  IF memory.memory_type \notin acc.memory_types_seen
             THEN SecondPassNoBreak(Tail(memories),
                    [ selected |-> Append(acc.selected, memory),
                      memory_types_seen |->
                          acc.memory_types_seen \cup {memory.memory_type} ])
             ELSE IF memory.score >= 500
             THEN SecondPassNoBreak(Tail(memories),
                    [ selected |-> Append(acc.selected, memory),
                      memory_types_seen |-> acc.memory_types_seen ])
             ELSE SecondPassNoBreak(Tail(memories), acc)

\* A selection that neither stops at target_k nor cuts the result to it.
SelectUncapped(ranked_memories, target_k) ==
    LET first == FirstPass(FirstK(ranked_memories, target_k),
                     [selected |-> <<>>, memory_types_seen |-> {}])
        second == SecondPassNoBreak(
                     SubSeq(ranked_memories, target_k + 1, Len(ranked_memories)),
                     first)
    IN  SortDesc(second.selected)

_select_optimal_memory_set(ranked_memories, target_k) ==
    IF Len(ranked_memories) <= target_k THEN ranked_memories
    ELSE LET first == FirstPass(FirstK(ranked_memories, target_k),
                          [selected |-> <<>>, memory_types_seen |-> {}])
             remaining_slots == target_k - Len(first.selected)
             second == IF remaining_slots > 0
                       THEN SecondPass(
                              SubSeq(ranked_memories, target_k + 1,
                                     Len(ranked_memories)),
                              first, target_k)
                       ELSE first
         IN  FirstK(SortDesc(second.selected), target_k)

----------------------------------------------------------------------------
(* intelligence.py: ConflictDetector and ConflictResolver *)

EvolutionKeywords == { <<"i", "prefer">>, <<"i", "like">>, <<"i", "love">> }

detect_direct_conflict(new_text, existing_text) == FALSE

detect_preference_change(new_text, existing_text) ==
    LET new_l == Lower(new_text)
        old_l == Lower(existing_text)
    IN  /\ AnyPhrase(new_l, EvolutionKeywords)
        /\ AnyPhrase(old_l, EvolutionKeywords)
        /\ new_l # old_l

\* A scan that stops at the first conflict it detects.
ScanFirstOnly(new_memory, user_memories) ==
    LET hits == { i \in DOMAIN user_memories :
                    /\ user_memories[i].metadata.memory_type
                           = new_memory.metadata.memory_type
                    /\ detect_preference_change(new_memory.content,
                           user_memories[i].content) }
    IN  IF hits = {} THEN <<>>
        ELSE <<[ ctype |-> "preference_evolution",
                 mem |-> user_memories[CHOOSE i \in hits : \A j \in hits : i <= j] ]>>

\* scan_for_conflicts: every conflict found, in the order of user_memories.
RECURSIVE scan_for_conflicts(_, _)
scan_for_conflicts(new_memory, user_memories) ==
    IF user_memories = <<>> THEN <<>>
    ELSE LET mem  == Head(user_memories)
             rest == scan_for_conflicts(new_memory, Tail(user_memories))
         IN  IF mem.metadata.memory_type # new_memory.metadata.memory_type
             THEN rest
             ELSE IF detect_preference_change(new_memory.content, mem.content)
             THEN <<[ctype |-> "preference_evolution", mem |-> mem]>> \o rest
             ELSE IF detect_direct_conflict(new_memory.content, mem.content)
             THEN <<[ctype |-> "direct_contradiction", mem |-> mem]>> \o rest
             ELSE rest

\* An UPDATE that names the new memory instead of the old one.
ResolveToNew(old_mem, new_mem) ==
    [operation |-> "UPDATE", target_memory_id |-> new_mem.id]

resolve_preference_evolution(old_mem, new_mem) ==
    [operation |-> "UPDATE", target_memory_id |-> old_mem.id]

\* metadata.get("source_type", "explicit") == "explicit"
IsExplicit(metadata) == metadata.source_type \in {"", "explicit"}

resolve_direct_contradiction(old_mem, new_mem) ==
    IF IsExplicit(new_mem.metadata) /\ ~IsExplicit(old_mem.metadata)
    THEN [operation |-> "DELETE", target_memory_id |-> old_mem.id]
    ELSE [operation |-> "UPDATE", target_memory_id |-> old_mem.id]

----------------------------------------------------------------------------
(* intelligent_extractor.py: IntelligentMemoryExtractor *)

\* An extraction result is [facts, preferences, confidence].
_build_candidate_records(extraction_result) ==
    LET texts == extraction_result.facts \o extraction_result.preferences
    IN  [i \in DOMAIN texts |->
            [ id |-> NoId, ref |-> NoId, content |-> texts[i],
              metadata |-> Merge(EmptyMeta,
                  [ memory_type |-> classify_type(texts[i]),
                    importance |-> calculate_importance(texts[i], TRUE),
                    confidence |-> extraction_result.confidence ]) ]]

\* _add_new_memory: the store with the new record (forced_type "" is None).
_add_new_memory(st, id, content, extraction_result, forced_type, forced_importance, now) ==
    LET memory_type ==
            IF forced_type # "" THEN forced_type
            ELSE IF \E i \in DOMAIN content : LowerTok(content[i]) \in
                     {"like", "love", "prefer", "enjoy", "hate", "allergic"}
                 THEN "preference" ELSE "fact"
        metadata == Merge(EmptyMeta,
            [ confidence |-> extraction_result.confidence,
              source_type |-> "explicit" ])
    IN  IF memory_type = "preference"
        THEN add_preference_memory(st, id, content, forced_importance, now)
        ELSE add_fact_memory(st, id, content, forced_importance, metadata, now)

\* A resolution that annotates the old record and does not add the candidate.
ResolveWithoutAdding(st, nid, conflicts, cand, extraction_result, now) ==
    [ store |-> IF conflicts[1].mem.id # NoId
                THEN update_memory_metadata(st, conflicts[1].mem.id,
                         [superseded_by |-> cand.content]).store
                ELSE st,
      action |-> resolve_preference_evolution(conflicts[1].mem, cand),
      entries |-> <<>> ]

\* Lines 65-81 of process_extracted_information: the first conflict is
\* resolved, then the candidate is added.  Result: [store, action, entries].
resolve_first_conflict(st, nid, conflicts, cand, extraction_result, now) ==
    LET ctype   == conflicts[1].ctype
        old_mem == conflicts[1].mem
        action  == IF ctype = "preference_evolution"
                   THEN resolve_preference_evolution(old_mem, cand)
                   ELSE resolve_direct_contradiction(old_mem, cand)
        op == action.operation
        st1 == IF op = "UPDATE" /\ old_mem.id # NoId
               THEN update_memory_metadata(st, old_mem.id,
                        [superseded_by |-> cand.content]).store
               ELSE IF op = "DELETE" /\ old_mem.id # NoId
               THEN delete_memory(st, old_mem.id).store
               ELSE st
        entries == IF op = "UPDATE" /\ old_mem.id # NoId
                   THEN <<[what |-> "Updated", content |-> cand.content]>>
                   ELSE IF op = "DELETE" /\ old_mem.id # NoId
                   THEN <<[what |-> "Deleted conflicting",
                           content |-> old_mem.content]>>
                   ELSE <<>>
    IN  [ store |-> _add_new_memory(st1, nid, cand.content, extraction_result,
                        cand.metadata.memory_type, cand.metadata.importance, now),
          action |-> action,
          entries |-> Append(entries, [what |-> "Added", content |-> cand.content]) ]

\* The loop with the existing records read again for every candidate.
RECURSIVE ProcessFromLive(_, _, _, _, _, _, _, _)
ProcessFromLive(st, nid, existing, candidates, i, extraction_result, now, acc) ==
    IF i > Len(candidates)
    THEN [ store |-> st, nextId |-> nid, processed |-> acc.processed,
           scanned |-> acc.scanned ]
    ELSE LET cand == candidates[i]
             conflicts == scan_for_conflicts(cand, get_user_memories(st))
             resolved == resolve_first_conflict(st, nid, conflicts, cand,
                             extraction_result, now)
             added == _add_new_memory(st, nid, cand.content, extraction_result,
                          cand.metadata.memory_type, cand.metadata.importance, now)
             scanned == Append(acc.scanned,
                            [ content |-> cand.content,
                              targets |-> {conflicts[k].mem.ref : k \in DOMAIN conflicts} ])
         IN  IF GetOr(cand.metadata.importance, 0) < 400
             THEN ProcessFromLive(st, nid, existing, candidates, i + 1,
                      extraction_result, now, acc)
             ELSE IF conflicts # <<>>
             THEN ProcessFromLive(resolved.store, nid + 1, existing, candidates, i + 1,
                      extraction_result, now,
                      [ processed |-> acc.processed \o resolved.entries,
                        scanned |-> scanned ])
             ELSE ProcessFromLive(added, nid + 1, existing, candidates, i + 1,
                      extraction_result, now,
                      [ processed |-> Append(acc.processed,
                            [what |-> "Added", content |-> cand.content]),
                        scanned |-> scanned ])

\* The loop of process_extracted_information over the candidates; `existing`
\* is the snapshot read before the loop.  Result: [store, nextId, processed,
\* scanned]; scanned lists, for each candidate that passed the floor, the
\* records scan_for_conflicts paired it with.
RECURSIVE ProcessFrom(_, _, _, _, _, _, _, _)
ProcessFrom(st, nid, existing, candidates, i, extraction_result, now, acc) ==
    IF i > Len(candidates)
    THEN [ store |-> st, nextId |-> nid, processed |-> acc.processed,
           scanned |-> acc.scanned ]
    ELSE LET cand == candidates[i]
             conflicts == scan_for_conflicts(cand, existing)
             resolved == resolve_first_conflict(st, nid, conflicts, cand,
                             extraction_result, now)
             added == _add_new_memory(st, nid, cand.content, extraction_result,
                          cand.metadata.memory_type, cand.metadata.importance, now)
             scanned == Append(acc.scanned,
                            [ content |-> cand.content,
                              targets |-> {conflicts[k].mem.ref : k \in DOMAIN conflicts} ])
         IN  IF GetOr(cand.metadata.importance, 0) < 400
             THEN ProcessFrom(st, nid, existing, candidates, i + 1,
                      extraction_result, now, acc)
             ELSE IF conflicts # <<>>
             THEN ProcessFrom(resolved.store, nid + 1, existing, candidates, i + 1,
                      extraction_result, now,
                      [ processed |-> acc.processed \o resolved.entries,
                        scanned |-> scanned ])
             ELSE ProcessFrom(added, nid + 1, existing, candidates, i + 1,
                      extraction_result, now,
                      [ processed |-> Append(acc.processed,
                            [what |-> "Added", content |-> cand.content]),
                        scanned |-> scanned ])

process_extracted_information(st, nid, extraction_result, now) ==
    ProcessFrom(st, nid, get_user_memories(st),
        _build_candidate_records(extraction_result), 1, extraction_result, now,
        [processed |-> <<>>, scanned |-> <<>>])

----------------------------------------------------------------------------
(* The engine as a state machine *)

TCat        == <<"I", "have", "a", "cat">>
TPrefHome   == <<"I", "prefer", "working", "from", "home">>
TPrefOffice == <<"I", "prefer", "working", "in", "the", "office">>
TTurn       == <<"User:", "hello", "Assistant:", "hi">>

\* The day of a clock position: the clock moves in steps of 1300 days, by
\* which a conversation and a preference have decayed below 0.1 and a fact
\* has not.
DayOf(t) == 1300 * t
Now == DayOf(tick)

\* agent.add_custom_memory(content, memory_type, importance) calls.
CustomMemories ==
    { [content |-> TCat, memory_type |-> "fact", importance |-> 1000],
      [content |-> TPrefHome, memory_type |-> "preference", importance |-> 1500] }

\* What extract_facts_and_preferences returned for a turn.
Extractions ==
    { [facts |-> <<TCat>>, preferences |-> <<>>, confidence |-> 900],
      [facts |-> <<>>, preferences |-> <<TPrefOffice>>, confidence |-> 900] }

\* What get_completion returned for the clusters of a run.
TSummary == <<"my", "cat", "luna", "sleeps", "on", "the", "sofa">>
TShort   == <<"ok">>
Completions == { <<TSummary>>, <<TShort>> }

RECURSIVE Perms(_)
Perms(S) ==
    IF S = {} THEN {<<>>}
    ELSE UNION { { <<x>> \o p : p \in Perms(S \ {x}) } : x \in S }

\* The results a query can give: the records in any order, with the
\* similarity the collection reports at each rank.
Rankings(st) ==
    { [i \in DOMAIN p |->
          [ ref |-> p[i],
            sim |-> IF i = 1 THEN 900 ELSE IF i = 2 THEN 800 ELSE 300 ]] :
        p \in Perms(Ids(st)) }

Refs(memories) == [i \in DOMAIN memories |-> memories[i].ref]

Did(op, refs, done) == [op |-> op, refs |-> refs, done |-> done]

NoInput == [kind |-> "none"]

Init ==
    /\ store = <<>>
    /\ nextId = 1
    /\ tick = 0
    /\ runs = 0
    /\ last = Did("init", <<>>, <<>>)
    /\ inp = NoInput
    /\ out = NoInput

AddCustomMemory ==
    /\ Len(store) < MaxStore
    /\ \E m \in CustomMemories :
          store' = add_memory(store, nextId, m.content, m.memory_type,
                       m.importance, EmptyMeta, Now)
    /\ nextId' = nextId + 1
    /\ last' = Did("add_custom_memory", <<nextId>>, <<>>)
    /\ UNCHANGED <<tick, runs, inp, out>>

\* agent._store_conversation -> add_conversation_memory
StoreConversation ==
    /\ Len(store) < MaxStore
    /\ store' = add_memory(store, nextId, TTurn, "conversation", Scale, EmptyMeta, Now)
    /\ nextId' = nextId + 1
    /\ last' = Did("add_conversation_memory", <<nextId>>, <<>>)
    /\ UNCHANGED <<tick, runs, inp, out>>

\* MemoryOperationEngine.process_conversation
ProcessConversation ==
    /\ \E extraction_result \in Extractions :
          /\ Len(store) + Len(extraction_result.facts)
                 + Len(extraction_result.preferences) <= MaxStore
          /\ LET r == process_extracted_information(store, nextId,
                          extraction_result, Now)
             IN  /\ store' = r.store
                 /\ nextId' = r.nextId
                 /\ last' = Did("process_conversation", r.processed, <<>>)
    /\ UNCHANGED <<tick, runs, inp, out>>

RetrieveMemories ==
    /\ store # <<>>
    /\ \E ranking \in Rankings(store), top_k \in 1..2 :
          last' = Did("retrieve_memories",
                      Refs(retrieve_memories(store, ranking, top_k)), <<>>)
    /\ UNCHANGED <<store, nextId, tick, runs, inp, out>>

\* min_relevance is the default 0.3
RetrieveMemoriesAdvanced ==
    /\ store # <<>>
    /\ \E ranking \in Rankings(store), top_k \in 1..2 :
          LET r == retrieve_memories_advanced(store, ranking, top_k,
                       (3 * One) \div 10, Now)
          IN  /\ store' = r.store
              /\ last' = Did("retrieve_memories_advanced", Refs(r.result), <<>>)
    /\ UNCHANGED <<nextId, tick, runs, inp, out>>

\* daily_maintenance: the three phases work on the list read at the start.
daily_maintenance(st, nid, completions, list_ok, now) ==
    LET all_memories == get_user_memories(st)
        updated == _update_importance_scores(st, all_memories, now)
        consolidated == _consolidate_related_memories(updated.store, nid,
                            all_memories, completions, list_ok, now)
        expired == _handle_memory_expiration(consolidated.store, all_memories, now)
    IN  [ store |-> expired.store, nextId |-> consolidated.nextId,
          done |-> consolidated.done,
          results |-> [ total_memories |-> Len(all_memories),
                        consolidated |-> consolidated.consolidated_count,
                        expired |-> expired.expired_count,
                        updated_importance |-> updated.updated_count,
                        archived |-> expired.archived_count ] ]

\* agent.run_memory_maintenance
DailyMaintenance ==
    /\ runs < MaxRuns
    /\ store # <<>>
    /\ \E completions \in Completions, list_ok \in BOOLEAN :
          LET r == daily_maintenance(store, nextId, completions, list_ok, Now)
          IN  /\ store' = r.store
              /\ nextId' = r.nextId
              /\ last' = Did("daily_maintenance", <<>>, r.done)
    /\ runs' = runs + 1
    /\ UNCHANGED <<tick, inp, out>>

\* _update_importance_scores on memories that carry their ids.
UpdateImportanceScores ==
    /\ runs < MaxRuns
    /\ store # <<>>
    /\ store' = _update_importance_scores(store, get_memories_with_ids(store), Now).store
    /\ last' = Did("_update_importance_scores", <<>>, <<>>)
    /\ runs' = runs + 1
    /\ UNCHANGED <<nextId, tick, inp, out>>

\* _handle_memory_expiration on memories that carry their ids.
HandleMemoryExpiration ==
    /\ runs < MaxRuns
    /\ store # <<>>
    /\ store' = _handle_memory_expiration(store, get_memories_with_ids(store), Now).store
    /\ last' = Did("_handle_memory_expiration", <<>>, <<>>)
    /\ runs' = runs + 1
    /\ UNCHANGED <<nextId, tick, inp, out>>

\* _consolidate_related_memories on memories that carry their ids.
ConsolidateRelatedMemories ==
    /\ runs < MaxRuns
    /\ store # <<>>
    /\ \E completions \in Completions, list_ok \in BOOLEAN :
          LET r == _consolidate_related_memories(store, nextId,
                       get_memories_with_ids(store), completions, list_ok, Now)
          IN  /\ store' = r.store
              /\ nextId' = r.nextId
              /\ last' = Did("_consolidate_related_memories", <<>>, r.done)
    /\ runs' = runs + 1
    /\ UNCHANGED <<tick, inp, out>>

Tick ==
    /\ tick < MaxTicks
    /\ tick' = tick + 1
    /\ last' = Did("tick", <<>>, <<>>)
    /\ UNCHANGED <<store, nextId, runs, inp, out>>

Next ==
    \/ AddCustomMemory
    \/ StoreConversation
    \/ ProcessConversation
    \/ RetrieveMemories
    \/ RetrieveMemoriesAdvanced
    \/ DailyMaintenance
    \/ UpdateImportanceScores
    \/ HandleMemoryExpiration
    \/ Tick

Spec == Init /\ [][Next]_vars

----------------------------------------------------------------------------
(* The lifecycle manager on a store of near-duplicates *)

CatBase == <<"my", "cat", "luna", "sleeps", "on", "the", "sofa">>
CatExtras == <<"daily", "often", "nightly", "always", "mostly">>

\* Five facts added on day 0, any two of them sharing 7 of their 9 words.
SeedStore(importance) ==
    [i \in 1..5 |->
        add_memory(<<>>, i, Append(CatBase, CatExtras[i]), "fact", importance,
            EmptyMeta, 0)[1]]

\* Five conversation turns added on day 0 with add_conversation_memory, any
\* two of them sharing 8 of their 10 words.
SeedTurns ==
    [i \in 1..5 |->
        add_memory(<<>>, i, <<"User:">> \o Append(CatBase, CatExtras[i]),
            "conversation", Scale, EmptyMeta, 0)[1]]

InitLifecycle ==
    /\ store \in {SeedStore(600), SeedStore(Scale), SeedTurns}
    /\ nextId = 6
    /\ tick = 0
    /\ runs = 0
    /\ last = Did("init", <<>>, <<>>)
    /\ inp = NoInput
    /\ out = NoInput

NextLifecycle ==
    \/ DailyMaintenance
    \/ ConsolidateRelatedMemories
    \/ UpdateImportanceScores
    \/ HandleMemoryExpiration
    \/ Tick

SpecLifecycle == InitLifecycle /\ [][NextLifecycle]_vars

----------------------------------------------------------------------------
(* Properties of the store *)

Range(seq) == {seq[i] : i \in DOMAIN seq}

\* C1 (as the specification states it): after any insertions, extraction
\* commits and maintenance runs, every stored record has
\* 0 <= importance <= 1 and 0 < decay_strength <= 1.
C1_ImportanceAndDecayInRange ==
    \A i \in DOMAIN store :
        LET metadata == store[i].metadata
        IN  /\ 0 <= metadata.importance
            /\ metadata.importance <= Scale
            /\ metadata.decay_strength # Absent =>
                   (0 < metadata.decay_strength /\ metadata.decay_strength <= Scale)

RetrievalOps == {"retrieve_memories", "retrieve_memories_advanced"}

\* C4 (as the specification states it): a record whose archived flag is set
\* is never among the records a retrieval returns.
C4_ArchivedNeverRetrieved ==
    last.op \in RetrievalOps =>
        \A k \in DOMAIN last.refs :
            ~IsArchived(Rec(store, last.refs[k]).metadata)

\* C7 (as the specification states it): for every record that
\* retrieve_memories_advanced returns, the call adds one to the record's
\* access_count in the store and sets its last_accessed to the time of the call.
C7_ReturnedRecordsAreCounted ==
    [][ last'.op = "retrieve_memories_advanced" =>
          \A k \in DOMAIN last'.refs :
              LET before == Rec(store, last'.refs[k]).metadata
                  after  == Rec(store', last'.refs[k]).metadata
              IN  /\ after.access_count = before.access_count + 1
                  /\ after.last_accessed = Now ]_vars

Protected(metadata) ==
    \/ GetOr(metadata.importance, 500) > 700
    \/ metadata.memory_type \in {"core", "preference"}

Expired(metadata) == GetOr(metadata.decay_strength, Scale) < expiration_threshold

ExpirationOps == {"daily_maintenance", "_handle_memory_expiration"}

\* C10 (as the specification states it): a maintenance run never deletes a
\* record of type core or preference or of importance > 0.7; when such a
\* record has expired (decay_strength < 0.1) the run archives it, and the only
\* records a run deletes are the other expired ones.
C10_ExpiredProtectedAreArchived ==
    [][ last'.op \in ExpirationOps =>
          \A i \in DOMAIN store :
              LET metadata == store[i].metadata
                  id       == store[i].id
              IN  /\ Protected(metadata) => id \in Ids(store')
                  /\ (Protected(metadata) /\ Expired(metadata)) =>
                         (id \in Ids(store') /\ IsArchived(Rec(store', id).metadata))
                  /\ id \notin Ids(store') =>
                         (Expired(metadata) /\ ~Protected(metadata)) ]_vars

\* The part of C10 that the code keeps on every path: a protected record is
\* never deleted, and only expired records are deleted.
ProtectedNeverDeleted ==
    [][ \A i \in DOMAIN store :
          store[i].id \notin Ids(store') =>
              (Expired(store[i].metadata) /\ ~Protected(store[i].metadata)) ]_vars

RECURSIVE SavedByConsolidation(_)
SavedByConsolidation(done) ==
    IF done = <<>> THEN 0
    ELSE (Head(done).size - 1) + SavedByConsolidation(Tail(done))

ConsolidationOps == {"daily_maintenance", "_consolidate_related_memories"}

\* C8 (as the specification states it): each consolidated cluster lowers the
\* number of active records by cluster_size - 1: one record is added, every
\* original of the cluster is archived and none deleted, and the new record's
\* consolidated_from lists the originals' ids.
C8_ConsolidationArchivesOriginals ==
    [][ (last'.op \in ConsolidationOps /\ last'.done # <<>>) =>
          /\ Cardinality(Active(store')) =
                 Cardinality(Active(store)) - SavedByConsolidation(last'.done)
          /\ \A k \in DOMAIN last'.done :
                LET d == last'.done[k]
                IN  /\ d.new_id \in Ids(store')
                    /\ \A r \in d.refs :
                          /\ r \in Ids(store')
                          /\ IsArchived(Rec(store', r).metadata)
                    /\ Range(Rec(store', d.new_id).metadata.consolidated_from.ids)
                           = d.refs ]_vars

----------------------------------------------------------------------------
(* calculate_relevance_score on two candidates that differ in similarity *)

MaxAccessCount == 3

\* s1 and s2 are 1 - distance for the distances a query reports.
ScoreInputs ==
    { [ kind |-> "score", s1 |-> s1, s2 |-> s2, now |-> now,
        metadata |-> Merge(EmptyMeta,
            [ memory_type |-> memory_type, importance |-> importance,
              timestamp |-> 0, access_count |-> access_count,
              last_accessed |-> 0 ]) ] :
        s1 \in {0 - 1500, 0, 500, 800, 900, Scale},
        s2 \in {0 - 1500, 0, 500, 800, 900, Scale}, now \in {0, 30},
        memory_type \in {"preference", "fact", "conversation"},
        importance \in {500, Scale, 1500},
        access_count \in {0, MaxAccessCount} }

Candidate(metadata, similarity) ==
    [ id |-> NoId, ref |-> NoId, content |-> <<>>, metadata |-> metadata,
      similarity_score |-> similarity ]

InitScore ==
    /\ store = <<>>
    /\ nextId = 1
    /\ tick = 0
    /\ runs = 0
    /\ last = Did("init", <<>>, <<>>)
    /\ inp \in {i \in ScoreInputs : i.s1 < i.s2}
    /\ out = NoInput

Score ==
    /\ out = NoInput
    /\ out' = [ kind |-> "scored",
                f1 |-> calculate_relevance_score(
                           Candidate(inp.metadata, inp.s1), inp.now),
                f2 |-> calculate_relevance_score(
                           Candidate(inp.metadata, inp.s2), inp.now) ]
    /\ UNCHANGED <<store, nextId, tick, runs, last, inp>>

SpecScore == InitScore /\ [][Score]_vars

\* C6 (as the specification states it): of two candidates that differ only in
\* the semantic similarity and have importance > 0, the one with the larger
\* similarity gets a strictly larger final score.
C6_SemanticStrictlyIncreasesFinal ==
    (out.kind = "scored" /\ inp.metadata.importance > 0 /\ inp.s1 < inp.s2)
        => out.f1 < out.f2

----------------------------------------------------------------------------
(* _select_optimal_memory_set on ranked lists *)

MaxRanked == 4
MaxK == 3

\* The lists _apply_contextual_ranking hands over: sorted by score, highest
\* first.
RankedLists ==
    UNION { { [i \in 1..n |-> [ref |-> i, memory_type |-> f[i][1], score |-> f[i][2]]] :
                f \in { g \in [1..n -> {"fact", "preference"} \X {300, 500, 550, 600, 800}] :
                          \A i \in 1..(n - 1) : g[i][2] >= g[i + 1][2] } } :
            n \in 0..MaxRanked }

InitSelect ==
    /\ store = <<>>
    /\ nextId = 1
    /\ tick = 0
    /\ runs = 0
    /\ last = Did("init", <<>>, <<>>)
    /\ inp \in { [kind |-> "select", ranked |-> r, k |-> k] :
                   r \in RankedLists, k \in 1..MaxK }
    /\ out = NoInput

Select ==
    /\ out = NoInput
    /\ out' = [ kind |-> "selected",
                selected |-> _select_optimal_memory_set(inp.ranked, inp.k) ]
    /\ UNCHANGED <<store, nextId, tick, runs, last, inp>>

SpecSelect == InitSelect /\ [][Select]_vars

\* C5: _select_optimal_memory_set returns at most k of the candidates it was
\* given, each at most once; given fewer than k candidates (or exactly k) it
\* returns all of them unchanged; and when fewer than k candidates reach the
\* high-relevance score 0.6, every one of those is returned.
C5_AtMostKAndAllWhenFewer ==
    out.kind = "selected" =>
        LET ranked == inp.ranked
            k      == inp.k
            result == out.selected
            high   == {i \in DOMAIN ranked : ranked[i].score >= 600}
        IN  /\ Len(result) <= k
            /\ Range(result) \subseteq Range(ranked)
            /\ Cardinality(Range(result)) = Len(result)
            /\ Len(ranked) <= k => result = ranked
            /\ Cardinality(high) < k =>
                   \A i \in high : ranked[i] \in Range(result)

\* More than k candidates, k of them returned, one of them from the second pass.
C5_Witness ==
    /\ out.kind = "selected"
    /\ Len(inp.ranked) > inp.k
    /\ Len(out.selected) = inp.k
    /\ \E m \in Range(out.selected) : m.score < 600 /\ m.ref > inp.k

----------------------------------------------------------------------------
(* _find_memory_clusters on one type group *)

MaxGroup == 4

WordsBase == <<"a", "b", "c", "d", "e", "f", "g">>

\* Near1..Near3 share 7 of 9 words pairwise; Edge shares exactly 7 of 10 with
\* each of them; Part shares 7 of 8 with Near1 and 6 of 9 with Near2, Near3.
Near1 == WordsBase \o <<"x1">>
Near2 == WordsBase \o <<"x2">>
Near3 == WordsBase \o <<"x3">>
Edge  == WordsBase \o <<"y1", "y2">>
Part  == <<"b", "c", "d", "e", "f", "g", "x1">>
Far   == <<"p", "q", "r">>

\* The records of one type group, in the order get_user_memories lists them.
Groups ==
    UNION { { [i \in 1..n |->
                 [ id |-> NoId, ref |-> i, content |-> f[i],
                   metadata |-> Merge(EmptyMeta, [memory_type |-> "fact"]) ]] :
              f \in { g \in [1..n -> {Near1, Near2, Near3, Edge, Part, Far}] :
                        \A i, j \in 1..n : i # j => g[i] # g[j] } } :
            n \in 3..MaxGroup }

InitCluster ==
    /\ store = <<>>
    /\ nextId = 1
    /\ tick = 0
    /\ runs = 0
    /\ last = Did("init", <<>>, <<>>)
    /\ inp \in { [kind |-> "cluster", memories |-> g] : g \in Groups }
    /\ out = NoInput

FindMemoryClusters ==
    /\ out = NoInput
    /\ out' = [kind |-> "clusters", clusters |-> _find_memory_clusters(inp.memories)]
    /\ UNCHANGED <<store, nextId, tick, runs, last, inp>>

SpecCluster == InitCluster /\ [][FindMemoryClusters]_vars

Jaccard(memories, i, j) == _calculate_memory_similarity(memories[i], memories[j])

\* The clusters that hold every record of S.
ClustersHolding(S) ==
    { k \in DOMAIN out.clusters :
        S \subseteq {out.clusters[k][j].ref : j \in DOMAIN out.clusters[k]} }

\* C9 (as the specification states it): n >= 3 records of a group whose
\* pairwise Jaccard similarity is >= 0.7 are placed in exactly one cluster
\* that contains all n of them.
C9_SimilarRecordsShareACluster ==
    out.kind = "clusters" =>
        \A S \in SUBSET DOMAIN inp.memories :
            ( /\ Cardinality(S) >= 3
              /\ \A i, j \in S : i # j =>
                    LET sim == Jaccard(inp.memories, i, j)
                    IN  sim.num * 10 >= 7 * sim.den )
            => Cardinality(ClustersHolding(S)) = 1

\* C9 (amended): n >= 3 records of a group whose pairwise Jaccard similarity
\* is strictly above 0.7, with no record outside them that comes before one of
\* them in the group and is more than 0.7 similar to it, are placed in
\* exactly one cluster that contains all n of them.
C9_StrictlySimilarRecordsShareACluster ==
    out.kind = "clusters" =>
        \A S \in SUBSET DOMAIN inp.memories :
            ( /\ Cardinality(S) >= 3
              /\ \A i, j \in S : i # j =>
                    LET sim == Jaccard(inp.memories, i, j)
                    IN  sim.num * 10 > 7 * sim.den
              /\ \A x \in DOMAIN inp.memories \ S : \A i \in S :
                    x < i =>
                        LET sim == Jaccard(inp.memories, x, i)
                        IN  ~(sim.num * 10 > 7 * sim.den) )
            => Cardinality(ClustersHolding(S)) = 1

\* Three strictly similar records in a group that also holds another record,
\* all three in one cluster.
C9_Witness ==
    /\ out.kind = "clusters"
    /\ Len(inp.memories) = 4
    /\ \E S \in SUBSET DOMAIN inp.memories :
          /\ Cardinality(S) = 3
          /\ \A i \in S : inp.memories[i].content \in {Near1, Near2, Near3}
          /\ Cardinality(ClustersHolding(S)) = 1

----------------------------------------------------------------------------
(* scan_for_conflicts and the resolver on one candidate *)

MaxExisting == 2

TPrefHomeCaps == <<"I", "PREFER", "working", "from", "HOME">>
TEnjoy        == <<"I", "enjoy", "hiking">>
THate         == <<"I", "hate", "hiking">>
TLikeTea      == <<"I", "like", "tea">>

ConflictTexts == {TPrefHome, TPrefOffice, TPrefHomeCaps, TEnjoy, THate, TLikeTea, TCat}

\* Existing records as the classifier typed them.  A MemoryRecord carries its
\* id, or None when it was built from get_user_memories.
ExistingLists ==
    UNION { { [i \in 1..n |->
                 [ id |-> IF with_id[i] THEN i ELSE NoId, ref |-> i,
                   content |-> f[i],
                   metadata |-> Merge(EmptyMeta,
                       [ memory_type |-> classify_type(f[i]),
                         importance |-> calculate_importance(f[i], TRUE),
                         source_type |-> "explicit" ]) ]] :
              f \in [1..n -> ConflictTexts], with_id \in [1..n -> BOOLEAN] } :
            n \in 1..MaxExisting }

InitConflict ==
    /\ store = <<>>
    /\ nextId = 1
    /\ tick = 0
    /\ runs = 0
    /\ last = Did("init", <<>>, <<>>)
    /\ inp \in { [ kind |-> "conflict", existing |-> e,
                   cand |-> _build_candidate_records(
                       [facts |-> <<t>>, preferences |-> <<>>, confidence |-> 900])[1] ] :
                   e \in ExistingLists, t \in ConflictTexts }
    /\ out = NoInput

\* The conflicts found and, for each, what the resolver returns.
ScanForConflicts ==
    /\ out = NoInput
    /\ LET conflicts == scan_for_conflicts(inp.cand, inp.existing)
       IN  out' = [ kind |-> "conflicts", conflicts |-> conflicts,
                    actions |-> [k \in DOMAIN conflicts |->
                        IF conflicts[k].ctype = "preference_evolution"
                        THEN resolve_preference_evolution(conflicts[k].mem, inp.cand)
                        ELSE resolve_direct_contradiction(conflicts[k].mem, inp.cand)] ]
    /\ UNCHANGED <<store, nextId, tick, runs, last, inp>>

SpecConflict == InitConflict /\ [][ScanForConflicts]_vars

\* The existing record i is reported as a preference_evolution and resolved
\* as an UPDATE of that record.
EvolutionUpdates(i) ==
    \E k \in DOMAIN out.conflicts :
        /\ out.conflicts[k] = [ctype |-> "preference_evolution", mem |-> inp.existing[i]]
        /\ out.actions[k] = [operation |-> "UPDATE",
                             target_memory_id |-> inp.existing[i].id]

\* C3 (as the specification states it): for an existing preference record and
\* a candidate of the same type whose texts both express a preference and
\* differ, the detector reports preference_evolution and the resolver returns
\* UPDATE targeting the existing record.
C3_PreferenceChangeUpdatesOlder ==
    out.kind = "conflicts" =>
        \A i \in DOMAIN inp.existing :
            ( /\ inp.existing[i].metadata.memory_type = "preference"
              /\ inp.cand.metadata.memory_type = "preference"
              /\ inp.existing[i].content # inp.cand.content )
            => EvolutionUpdates(i)

\* The texts "i prefer", "i like" or "i love" occur in (lower-cased).
SaysPreference(text) ==
    \E i \in 1..(Len(text) - 1) :
        LowerTok(text[i]) = "i" /\ LowerTok(text[i + 1]) \in {"prefer", "like", "love"}

\* C3 (amended): for an existing record and a candidate of the same type whose
\* lower-cased texts both contain "i prefer", "i like" or "i love" and differ,
\* the detector reports preference_evolution for that record and the resolver
\* returns UPDATE with the existing record's id as its target.
C3_GatedPreferenceChangeUpdatesOlder ==
    out.kind = "conflicts" =>
        \A i \in DOMAIN inp.existing :
            ( /\ inp.existing[i].metadata.memory_type = inp.cand.metadata.memory_type
              /\ SaysPreference(inp.existing[i].content)
              /\ SaysPreference(inp.cand.content)
              /\ [j \in DOMAIN inp.cand.content |-> LowerTok(inp.cand.content[j])]
                     # [j \in DOMAIN inp.existing[i].content |->
                            LowerTok(inp.existing[i].content[j])] )
            => EvolutionUpdates(i)

\* "I prefer working from home" is stored and "I prefer working in the
\* office" arrives: an UPDATE of the stored record.
C3_Witness ==
    /\ out.kind = "conflicts"
    /\ inp.cand.content = TPrefOffice
    /\ \E i \in DOMAIN inp.existing :
          /\ inp.existing[i].content = TPrefHome
          /\ inp.existing[i].id # NoId
          /\ EvolutionUpdates(i)

----------------------------------------------------------------------------
(* llm_client.py: the completion service, and process_conversation on it *)

\* A reply text is a sequence of the tokens "{", "}", "facts" (the member
\* "facts": ["I have a cat"]), "preferences" (the member
\* "preferences": ["I prefer working in the office"]) and "prose".  An
\* outcome is what the request to the service did.
get_completion(outcome) ==
    CASE outcome.kind = "request_exception" ->
             <<"I'm", "sorry", "trouble", "connecting">>
      [] outcome.kind = "json_decode_error" ->
             <<"I'm", "sorry", "invalid", "response">>
      [] OTHER -> outcome.response

\* get_structured_completion: re.search(r'\{.*\}', response, re.DOTALL) takes
\* the text from the first "{" to the last "}" after it, and json.loads
\* parses it; None on no match and on a text that is not JSON.  A parsed
\* object lists its keys, and holds for a key it lacks the default that the
\* readers' .get(key, default) gives.
get_structured_completion(outcome) ==
    LET response == get_completion(outcome)
        opens    == {i \in DOMAIN response : response[i] = "{"}
        start    == CHOOSE i \in opens : \A k \in opens : i <= k
        closes   == {j \in DOMAIN response : response[j] = "}" /\ j > start}
        end      == CHOOSE j \in closes : \A k \in closes : k <= j
        members  == SubSeq(response, start + 1, end - 1)
        has(key) == \E k \in DOMAIN members : members[k] = key
    IN  IF opens = {} THEN [kind |-> "none"]
        ELSE IF closes = {} THEN [kind |-> "none"]
        ELSE IF \E k \in DOMAIN members : members[k] \notin {"facts", "preferences"}
        THEN [kind |-> "none"]
        ELSE [ kind |-> "object",
               keys |-> {members[k] : k \in DOMAIN members},
               facts |-> IF has("facts") THEN <<TCat>> ELSE <<>>,
               preferences |-> IF has("preferences") THEN <<TPrefOffice>> ELSE <<>>,
               importance_score |-> Scale,
               confidence |-> Scale ]

\* An extraction that guesses a fact when the service gave nothing usable.
ExtractGuessing(outcome) ==
    LET result == get_structured_completion(outcome)
    IN  IF result.kind = "none"
        THEN [ kind |-> "object", keys |-> {"facts"}, facts |-> <<TCat>>,
               preferences |-> <<>>, importance_score |-> Scale,
               confidence |-> Scale ]
        ELSE result

extract_facts_and_preferences(outcome) ==
    LET result == get_structured_completion(outcome)
    IN  IF result.kind = "none"
        THEN [ kind |-> "object",
               keys |-> {"facts", "preferences", "entities", "importance_score",
                         "confidence"},
               facts |-> <<>>, preferences |-> <<>>,
               importance_score |-> 0, confidence |-> 0 ]
        ELSE result

\* MemoryOperationEngine.process_conversation: extract, then process.
process_conversation(st, nid, outcome, now) ==
    LET extraction_result  == extract_facts_and_preferences(outcome)
        processed_memories == process_extracted_information(st, nid,
                                  extraction_result, now)
    IN  [ store |-> processed_memories.store,
          nextId |-> processed_memories.nextId,
          extraction_result |-> extraction_result,
          processed_memories |-> processed_memories.processed ]

MaxReply == 3
MaxTurns == 1

Outcomes ==
    { [kind |-> "request_exception"], [kind |-> "json_decode_error"] }
    \cup { [kind |-> "reply", response |-> r] :
             r \in UNION { [1..n -> {"{", "}", "facts", "preferences", "prose"}] :
                             n \in 0..MaxReply } }

InitExtract ==
    /\ store \in { <<>>, add_preference_memory(<<>>, 1, TPrefHome, 1500, 0) }
    /\ nextId = Len(store) + 1
    /\ tick = 0
    /\ runs = 0
    /\ last = Did("init", <<>>, <<>>)
    /\ inp = NoInput
    /\ out = NoInput

\* One turn of the agent: process_conversation with whatever the service did.
ProcessConversationViaService ==
    /\ runs < MaxTurns
    /\ \E outcome \in Outcomes :
          LET r == process_conversation(store, nextId, outcome, Now)
          IN  /\ store' = r.store
              /\ nextId' = r.nextId
              /\ last' = Did("process_conversation", r.processed_memories, <<>>)
              /\ inp' = outcome
              /\ out' = r.extraction_result
    /\ runs' = runs + 1
    /\ UNCHANGED tick

SpecExtract == InitExtract /\ [][ProcessConversationViaService]_vars

\* C11: when the request to the completion service fails, or its reply holds
\* no JSON object (no "{" ... "}" stretch that parses), the extraction is the
\* fallback (no facts, no preferences, importance 0, confidence 0) and
\* process_conversation reports no operation and leaves the store as it was.
C11_FailedCompletionCommitsNothing ==
    [][ LET outcome == inp'
            holds_object(response) ==
                \E i, j \in DOMAIN response :
                    /\ i < j
                    /\ response[i] = "{"
                    /\ response[j] = "}"
                    /\ \A k \in (i + 1)..(j - 1) :
                          response[k] \in {"facts", "preferences"}
            failed ==
                \/ outcome.kind \in {"request_exception", "json_decode_error"}
                \/ outcome.kind = "reply" /\ ~holds_object(outcome.response)
        IN  (last'.op = "process_conversation" /\ failed) =>
                /\ out'.facts = <<>>
                /\ out'.preferences = <<>>
                /\ out'.importance_score = 0
                /\ out'.confidence = 0
                /\ last'.refs = <<>>
                /\ store' = store
                /\ nextId' = nextId ]_vars

\* A reply that opens an object with a facts member and never closes it, on a
\* store that holds a record: the fallback, and nothing reported.
C11_Witness ==
    /\ last.op = "process_conversation"
    /\ inp.kind = "reply"
    /\ Len(inp.response) = 3
    /\ inp.response[1] = "{"
    /\ inp.response[2] = "facts"
    /\ inp.response[3] = "prose"
    /\ out.confidence = 0
    /\ out.facts = <<>>
    /\ last.refs = <<>>
    /\ Len(store) = 1

----------------------------------------------------------------------------
(* Running the importance recomputation again *)

\* C12 (as the specification states it): the importance/decay recomputation
\* is idempotent: a second run over the same records at the same clock leaves
\* every record with the importance and decay_strength the first run gave it.
C12_RecomputationIsIdempotent ==
    [][ (last.op = "_update_importance_scores"
            /\ last'.op = "_update_importance_scores")
          => \A i \in DOMAIN store :
                /\ store'[i].metadata.importance = store[i].metadata.importance
                /\ store'[i].metadata.decay_strength
                       = store[i].metadata.decay_strength ]_vars

----------------------------------------------------------------------------
(* calculate_decay_strength on one metadata dict *)

InitDecay ==
    /\ store = <<>>
    /\ nextId = 1
    /\ tick = 0
    /\ runs = 0
    /\ last = Did("init", <<>>, <<>>)
    /\ inp \in { [ kind |-> "decay", now |-> now,
                   metadata |-> Merge(EmptyMeta,
                       [memory_type |-> memory_type, timestamp |-> timestamp]) ] :
                   now \in {400, 800},
                   timestamp \in {Absent, Unparseable, 0, 393, 400},
                   memory_type \in {"core", "preference", "episodic", "procedural",
                                    "temporal", "fact", "conversation"} }
    /\ out = NoInput

CalculateDecayStrength ==
    /\ out = NoInput
    /\ out' = [ kind |-> "decay_strength",
                value |-> calculate_decay_strength(inp.metadata, inp.now) ]
    /\ UNCHANGED <<store, nextId, tick, runs, last, inp>>

SpecDecay == InitDecay /\ [][CalculateDecayStrength]_vars

\* C13 (as the specification states it): calculate_decay_strength returns 0.5
\* for a record whose timestamp is missing or cannot be parsed.
C13_NoTimestampGivesHalf ==
    (out.kind = "decay_strength"
        /\ inp.metadata.timestamp \in {Absent, Unparseable})
        => out.value = 500

----------------------------------------------------------------------------
(* chroma_client.py: opening the collection *)

\* get_collection.  `env` says whether the collection exists on disk, whether
\* this process has cached it, and the dimension of the embeddings it holds
\* (Absent while it is empty); `dim` is len(get_embedding("test")) in this
\* process: 768 from nomic-embed-text, 384 from the fallback model.
\* Result: [store, env, result].
get_collection(st, env, dim) ==
    LET created == [ store |-> <<>>,
                     env |-> [env EXCEPT !.exists = TRUE, !.cached = TRUE,
                                         !.stored_dim = Absent],
                     result |-> "created" ]
    IN  IF env.cached THEN [store |-> st, env |-> env, result |-> "cached"]
        ELSE IF ~env.exists THEN created
        ELSE IF dim # 384 THEN [created EXCEPT !.result = "recreated"]
        ELSE [ store |-> st, env |-> [env EXCEPT !.cached = TRUE],
               result |-> "opened" ]

InitCollection ==
    /\ store = <<>>
    /\ nextId = 1
    /\ tick = 0
    /\ runs = 0
    /\ last = Did("init", <<>>, <<>>)
    /\ inp = [ kind |-> "collection", exists |-> FALSE, cached |-> FALSE,
               stored_dim |-> Absent, dim |-> Absent ]
    /\ out = NoInput

GetCollection ==
    /\ \E dim \in {384, 768} :
          LET r == get_collection(store, inp, dim)
          IN  /\ store' = r.store
              /\ inp' = [r.env EXCEPT !.dim = dim]
              /\ out' = [kind |-> r.result]
    /\ last' = Did("get_collection", <<>>, <<>>)
    /\ UNCHANGED <<nextId, tick, runs>>

\* MemoryManager.add_memory -> chroma_client.add_memory: collection.add raises
\* when the embedding's dimension is not the collection's.
AddMemoryToCollection ==
    /\ Len(store) < MaxStore
    /\ \E dim \in {384, 768} :
          LET r == get_collection(store, inp, dim)
          IN  IF r.env.stored_dim \in {Absent, dim}
              THEN /\ store' = add_memory(r.store, nextId, TCat, "fact", Scale,
                                   EmptyMeta, Now)
                   /\ nextId' = nextId + 1
                   /\ inp' = [r.env EXCEPT !.dim = dim, !.stored_dim = dim]
                   /\ out' = [kind |-> "added"]
              ELSE /\ store' = r.store
                   /\ nextId' = nextId
                   /\ inp' = [r.env EXCEPT !.dim = dim]
                   /\ out' = [kind |-> "raised"]
    /\ last' = Did("add_memory", <<>>, <<>>)
    /\ UNCHANGED <<tick, runs>>

\* A new process: the module-level _collection_cache is None again.
Restart ==
    /\ runs < MaxRuns
    /\ inp.cached
    /\ inp' = [inp EXCEPT !.cached = FALSE]
    /\ runs' = runs + 1
    /\ last' = Did("restart", <<>>, <<>>)
    /\ out' = NoInput
    /\ UNCHANGED <<store, nextId, tick>>

NextCollection ==
    \/ GetCollection
    \/ AddMemoryToCollection
    \/ Restart

SpecCollection == InitCollection /\ [][NextCollection]_vars

\* C14 (as the specification states it): when a process opens an existing
\* collection and the embedding dimension is not the one the collection
\* holds, get_collection fails with a configuration error and the stored
\* records stay in place.
C14_DimensionMismatchIsFatal ==
    [][ ( /\ last'.op = "get_collection"
          /\ ~inp.cached
          /\ inp.exists
          /\ inp.stored_dim # Absent
          /\ inp'.dim # inp.stored_dim )
        => (out'.kind = "error" /\ store' = store) ]_vars

----------------------------------------------------------------------------
(* update_memory_metadata and delete_memory called with any id *)

InitStoreOps ==
    /\ store \in { <<>>,
                   add_memory(<<>>, 1, TCat, "fact", Scale, EmptyMeta, 0),
                   add_memory(add_memory(<<>>, 1, TCat, "fact", Scale, EmptyMeta, 0),
                       2, TPrefHome, "preference", 1500, EmptyMeta, 0) }
    /\ nextId = Len(store) + 1
    /\ tick = 0
    /\ runs = 0
    /\ last = Did("init", <<>>, <<>>)
    /\ inp = NoInput
    /\ out = NoInput

UpdateMemoryMetadata ==
    /\ \E memory_id \in 1..(MaxStore + 1),
          metadata_updates \in { [is_archived |-> TRUE],
                                 [superseded_by |-> TPrefOffice] } :
          LET r == update_memory_metadata(store, memory_id, metadata_updates)
          IN  /\ store' = r.store
              /\ inp' = [kind |-> "call", memory_id |-> memory_id]
              /\ out' = [kind |-> "result", ok |-> r.ok]
    /\ last' = Did("update_memory_metadata", <<>>, <<>>)
    /\ UNCHANGED <<nextId, tick, runs>>

DeleteMemory ==
    /\ \E memory_id \in 1..(MaxStore + 1) :
          LET r == delete_memory(store, memory_id)
          IN  /\ store' = r.store
              /\ inp' = [kind |-> "call", memory_id |-> memory_id]
              /\ out' = [kind |-> "result", ok |-> r.ok]
    /\ last' = Did("delete_memory", <<>>, <<>>)
    /\ UNCHANGED <<nextId, tick, runs>>

NextStoreOps ==
    \/ UpdateMemoryMetadata
    \/ DeleteMemory

SpecStoreOps == InitStoreOps /\ [][NextStoreOps]_vars

\* C15 (as the specification states it): update_memory_metadata and
\* delete_memory called with an id that is not in the store return False and
\* leave the store unchanged.
C15_MissingIdReturnsFalse ==
    [][ ( /\ last'.op \in {"update_memory_metadata", "delete_memory"}
          /\ inp'.memory_id \notin Ids(store) )
        => (out'.ok = FALSE /\ store' = store) ]_vars

----------------------------------------------------------------------------
(* The metadata values in the collection *)

\* C16 (as the specification states it): every metadata value the engine
\* writes to the collection is a primitive scalar; a list-valued field such
\* as consolidated_from is written as a delimited string, never as a list.
C16_StoredMetadataIsScalar ==
    \A i \in DOMAIN store :
        store[i].metadata.consolidated_from.kind # "list"

----------------------------------------------------------------------------
(* contextual_retrieval.py: ConversationContext *)

\* deque(maxlen=20)
maxlen == 20

\* An append to a list that has no capacity.
AppendUnbounded(conversation_history, exchange) ==
    Append(conversation_history, exchange)

\* add_exchange: deque.append on a full deque discards the item at the left
\* end.
add_exchange(conversation_history, exchange) ==
    IF Len(conversation_history) = maxlen
    THEN Append(Tail(conversation_history), exchange)
    ELSE Append(conversation_history, exchange)

\* get_recent_context: list(self.conversation_history)[-exchanges:]
get_recent_context(conversation_history, exchanges) ==
    SubSeq(conversation_history,
        Max(1, Len(conversation_history) - exchanges + 1),
        Len(conversation_history))

MaxExchanges == 22

\* `runs` counts the add_exchange calls; an exchange carries the number of
\* the call that added it as its timestamp.
InitContext ==
    /\ store = <<>>
    /\ nextId = 1
    /\ tick = 0
    /\ runs = 0
    /\ last = Did("init", <<>>, <<>>)
    /\ inp = [kind |-> "context", conversation_history |-> <<>>]
    /\ out = NoInput

\* agent.process_user_input, step 7
AddExchange ==
    /\ runs < MaxExchanges
    /\ inp' = [inp EXCEPT !.conversation_history =
                  add_exchange(@, [ user |-> TCat, assistant |-> TShort,
                                    timestamp |-> runs + 1 ])]
    /\ runs' = runs + 1
    /\ last' = Did("add_exchange", <<>>, <<>>)
    /\ UNCHANGED <<store, nextId, tick, out>>

GetRecentContext ==
    /\ \E exchanges \in 1..3 :
          out' = [ kind |-> "recent",
                   recent |-> get_recent_context(inp.conversation_history, exchanges) ]
    /\ last' = Did("get_recent_context", <<>>, <<>>)
    /\ UNCHANGED <<store, nextId, tick, runs, inp>>

NextContext ==
    \/ AddExchange
    \/ GetRecentContext

SpecContext == InitContext /\ [][NextContext]_vars

\* C17: after n add_exchange calls the history holds exactly the last
\* min(n, 20) exchanges in the order they were added; a call appends its
\* exchange, drops the oldest one only when the history was full, and keeps
\* the others in place; no other operation changes the history.
C17_HistoryIsLastTwenty ==
    /\ [](LET h == inp.conversation_history
          IN  /\ Len(h) = Min(runs, 20)
              /\ \A i \in DOMAIN h : h[i].timestamp = runs - Len(h) + i)
    /\ [][ LET h  == inp.conversation_history
               h2 == inp'.conversation_history
           IN  IF runs' = runs + 1
               THEN /\ h2[Len(h2)].timestamp = runs + 1
                    /\ SubSeq(h2, 1, Len(h2) - 1)
                           = SubSeq(h, Len(h) - Len(h2) + 2, Len(h))
                    /\ Len(h) < 20 => Len(h2) = Len(h) + 1
               ELSE h2 = h ]_vars

\* 22 exchanges were added: the history holds the exchanges 3 to 22.
C17_Witness ==
    /\ runs = 22
    /\ Len(inp.conversation_history) = 20
    /\ inp.conversation_history[1].timestamp = 3
    /\ inp.conversation_history[20].timestamp = 22

----------------------------------------------------------------------------
(* Archived records and expiration *)

\* C18 (as the specification states it): expiration applies to active records
\* only: a record that is already archived is retained, and no maintenance
\* run deletes it.
C18_ArchivedRecordsAreRetained ==
    [][ last'.op \in ExpirationOps =>
          \A i \in DOMAIN store :
              IsArchived(store[i].metadata) => store[i].id \in Ids(store') ]_vars

----------------------------------------------------------------------------
(* The resolution step of process_extracted_information on one conflict *)

\* One stored fact whose source_type is old_source ("" when the key is
\* missing), and a candidate with source_type new_source that the scan has
\* paired with it in a conflict of type ctype.
InitResolve ==
    /\ \E old_text \in {TCat, TLikeTea}, old_source \in {"", "explicit", "inferred"} :
          /\ store = add_fact_memory(<<>>, 1, old_text, 800,
                         Merge(EmptyMeta, [source_type |-> old_source]), 0)
          /\ inp \in { [ kind |-> "resolve", ctype |-> ctype, text |-> text,
                         old_source |-> old_source, new_source |-> new_source ] :
                         ctype \in {"preference_evolution", "direct_contradiction"},
                         text \in ConflictTexts,
                         new_source \in {"", "explicit", "inferred"} }
    /\ nextId = 2
    /\ tick = 0
    /\ runs = 0
    /\ last = Did("init", <<>>, <<>>)
    /\ out = NoInput

\* The existing records are read with get_user_memories, as line 52 does.
ResolveFirstConflict ==
    /\ out = NoInput
    /\ LET extraction_result ==
               [facts |-> <<inp.text>>, preferences |-> <<>>, confidence |-> 900]
           built == _build_candidate_records(extraction_result)[1]
           cand == [built EXCEPT !.metadata.source_type = inp.new_source]
           existing == get_user_memories(store)
           r == resolve_first_conflict(store, nextId,
                    <<[ctype |-> inp.ctype, mem |-> existing[1]]>>, cand,
                    extraction_result, Now)
       IN  /\ store' = r.store
           /\ out' = [kind |-> "resolved", action |-> r.action]
           /\ last' = Did("process_extracted_information", r.entries, <<>>)
    /\ nextId' = nextId + 1
    /\ UNCHANGED <<tick, runs, inp>>

SpecResolve == InitResolve /\ [][ResolveFirstConflict]_vars

ResolverReturnsAsStated ==
    (out.kind = "resolved" /\ inp.ctype = "direct_contradiction") =>
        out.action.operation =
            (IF inp.new_source \in {"", "explicit"} /\ inp.old_source = "inferred"
             THEN "DELETE" ELSE "UPDATE")

----------------------------------------------------------------------------
(* How many conflicts scan_for_conflicts returns *)

\* C20 (as the specification states it): for every candidate and every list
\* of existing records, scan_for_conflicts returns at most one conflict, the
\* first one detected in the order of the existing records.
C20_AtMostTheFirstConflict ==
    out.kind = "conflicts" =>
        /\ Len(out.conflicts) <= 1
        /\ \A i \in DOMAIN inp.existing :
              ( /\ EvolutionUpdates(i)
                /\ \A j \in 1..(i - 1) : ~EvolutionUpdates(j) )
              => out.conflicts[1].mem = inp.existing[i]

\* C20 (amended): scan_for_conflicts returns one preference_evolution conflict
\* for every existing record of the candidate's type whose lower-cased text,
\* like the candidate's, contains "i prefer", "i like" or "i love" and
\* differs from the candidate's, in the order of the existing records (so
\* more than one when several records qualify); its first element is the
\* first such record.
C20_EveryConflictInOrder ==
    out.kind = "conflicts" =>
        LET existing == inp.existing
            lowered(text) == [j \in DOMAIN text |-> LowerTok(text[j])]
            hits == { i \in DOMAIN existing :
                        /\ existing[i].metadata.memory_type
                               = inp.cand.metadata.memory_type
                        /\ SaysPreference(existing[i].content)
                        /\ SaysPreference(inp.cand.content)
                        /\ lowered(existing[i].content) # lowered(inp.cand.content) }
            nth(k) == CHOOSE i \in hits : Cardinality({j \in hits : j < i}) = k - 1
        IN  /\ Len(out.conflicts) = Cardinality(hits)
            /\ \A k \in DOMAIN out.conflicts :
                  out.conflicts[k] =
                      [ctype |-> "preference_evolution", mem |-> existing[nth(k)]]

\* Two stored preferences and a third, different one arriving: two conflicts,
\* in the order of the stored records.
C20_Witness ==
    /\ out.kind = "conflicts"
    /\ inp.cand.content = TPrefOffice
    /\ Len(inp.existing) = 2
    /\ inp.existing[1].content = TPrefHome
    /\ inp.existing[2].content = TLikeTea
    /\ Len(out.conflicts) = 2
    /\ out.conflicts[1].mem = inp.existing[1]
    /\ out.conflicts[2].mem = inp.existing[2]

----------------------------------------------------------------------------
(* retrieve_memories_advanced on a store of several records *)

MaxRetrieved == 3

\* Records added on day 0 with add_custom_memory or add_conversation_memory,
\* and a query whose result lists them in any order.
InitRetrieve ==
    /\ \E m \in [1..MaxRetrieved -> CustomMemories \cup
                    {[content |-> TTurn, memory_type |-> "conversation",
                      importance |-> Scale]}] :
          store = [i \in 1..MaxRetrieved |->
                      add_memory(<<>>, i, m[i].content, m[i].memory_type,
                          m[i].importance, EmptyMeta, 0)[1]]
    /\ inp \in { [kind |-> "retrieve", ranking |-> ranking, top_k |-> top_k] :
                   ranking \in Rankings(store), top_k \in 1..MaxRetrieved }
    /\ nextId = MaxRetrieved + 1
    /\ tick = 0
    /\ runs = 0
    /\ last = Did("init", <<>>, <<>>)
    /\ out = NoInput

\* retrieve_memories_advanced(query, top_k) with the default min_relevance.
RetrieveAdvancedRanked ==
    /\ out = NoInput
    /\ LET r == retrieve_memories_advanced(store, inp.ranking, inp.top_k,
                    (3 * One) \div 10, Now)
       IN  /\ store' = r.store
           /\ out' = [kind |-> "retrieved", result |-> r.result]
           /\ last' = Did("retrieve_memories_advanced", Refs(r.result), <<>>)
    /\ UNCHANGED <<nextId, tick, runs, inp>>

SpecRetrieve == InitRetrieve /\ [][RetrieveAdvancedRanked]_vars

\* C21: the list retrieve_memories_advanced returns is sorted by final
\* relevance score in descending order, and candidates with equal final
\* scores appear in their original candidate order (the order of the query
\* result).
C21_SortedDescendingAndStable ==
    out.kind = "retrieved" =>
        LET result == out.result
            rank(ref) == CHOOSE k \in DOMAIN inp.ranking : inp.ranking[k].ref = ref
        IN  \A i, j \in DOMAIN result :
                i < j =>
                    /\ result[i].score >= result[j].score
                    /\ result[i].score = result[j].score =>
                           rank(result[i].ref) < rank(result[j].ref)

\* Three records returned: the third candidate scores highest and comes
\* first, the first two candidates tie and keep their order.
C21_Witness ==
    /\ out.kind = "retrieved"
    /\ Len(out.result) = 3
    /\ out.result[1].ref = inp.ranking[3].ref
    /\ out.result[2].ref = inp.ranking[1].ref
    /\ out.result[3].ref = inp.ranking[2].ref
    /\ out.result[2].score = out.result[3].score
    /\ out.result[1].score > out.result[2].score

----------------------------------------------------------------------------
(* _calculate_recency_score on one metadata dict *)

CalculateRecencyScore ==
    /\ out = NoInput
    /\ out' = [ kind |-> "recency_score",
                value |-> _calculate_recency_score(
                              Candidate(inp.metadata, Scale), inp.now) ]
    /\ UNCHANGED <<store, nextId, tick, runs, last, inp>>

SpecRecency == InitDecay /\ [][CalculateRecencyScore]_vars

\* C22 (as the specification states it): the recency factor of the relevance
\* score equals the decay model's output for the record: for every memory
\* type, age and timestamp (present, missing or unparseable),
\* _calculate_recency_score agrees with calculate_decay_strength and its
\* per-type half-life.
C22_RecencyIsDecayStrength ==
    out.kind = "recency_score" =>
        out.value = calculate_decay_strength(inp.metadata, inp.now)

----------------------------------------------------------------------------
(* The second pass of _select_optimal_memory_set *)

\* C23 (as the specification states it): when pass 1 leaves slots free, pass 2
\* fills them from all candidates not yet selected, so no unselected
\* candidate with blended score >= 0.5 is left out while a slot is free or
\* while a lower-scoring candidate of an already-seen type is selected.
C23_SecondPassFillsFromAllUnselected ==
    (out.kind = "selected" /\ Len(inp.ranked) > inp.k) =>
        LET ranked == inp.ranked
            result == out.selected
        IN  \A i \in DOMAIN ranked :
                (ranked[i].score >= 500 /\ ranked[i] \notin Range(result)) =>
                    /\ Len(result) = inp.k
                    /\ ~ \E m, rep \in Range(result) :
                            /\ m.score < ranked[i].score
                            /\ rep.memory_type = m.memory_type
                            /\ rep.ref < m.ref

----------------------------------------------------------------------------
(* Expiration within the run that recomputes the decay strength *)

\* C24 (as the specification states it): when a maintenance run
\* (daily_maintenance) completes, every record that was active and whose
\* decay_strength as the run recomputes it is below 0.1 has been archived or
\* deleted by that same run.
C24_DecayedRecordsLeaveInTheSameRun ==
    [][ last'.op = "daily_maintenance" =>
          \A i \in Active(store) :
              calculate_decay_strength(store[i].metadata, Now) < expiration_threshold
                  => \/ store[i].id \notin Ids(store')
                     \/ IsArchived(Rec(store', store[i].id).metadata) ]_vars

----------------------------------------------------------------------------
(* Consolidation and records that are already archived *)

\* C25 (as the specification states it): consolidation clusters only active
\* records: a record archived by an earlier consolidation is never clustered
\* again, so a second maintenance run does not create another consolidated
\* record from the same originals.
C25_ArchivedRecordsAreNotClusteredAgain ==
    [][ last'.op \in ConsolidationOps =>
          \A k \in DOMAIN last'.done :
              LET d == last'.done[k]
              IN  /\ \A r \in d.refs : ~IsArchived(Rec(store, r).metadata)
                  /\ ~ \E i \in DOMAIN store :
                         /\ store[i].metadata.source_type = "consolidated"
                         /\ Range(store[i].metadata.consolidated_from.ids) = d.refs
        ]_vars

----------------------------------------------------------------------------
(* lifecycle_manager.py: get_memory_health_metrics *)

MaxHealth == 3

\* Status boundaries that are strict.
HealthStatusStrict(health_score) ==
    IF health_score > 80 THEN "Excellent"
    ELSE IF health_score > 60 THEN "Good"
    ELSE IF health_score > 40 THEN "Fair"
    ELSE "Poor"

_get_health_status(health_score) ==
    IF health_score >= 80 THEN "Excellent"
    ELSE IF health_score >= 60 THEN "Good"
    ELSE IF health_score >= 40 THEN "Fair"
    ELSE "Poor"

\* get_memory_health_metrics.  The averages are kept as the sums over
\* total_memories; int() of the weighted sum, which is never negative here,
\* is the integer quotient.
get_memory_health_metrics(st) ==
    LET all_memories == get_user_memories(st)
        total_memories == Len(all_memories)
        active_memories ==
            Len(SelectSeq(all_memories, LAMBDA m : ~m.metadata.is_archived))
        importance_scores ==
            [i \in DOMAIN all_memories |->
                GetOr(all_memories[i].metadata.importance, 500)]
        decay_strengths ==
            [i \in DOMAIN all_memories |->
                GetOr(all_memories[i].metadata.decay_strength, Scale)]
        health_score ==
            Min(100,
                ( active_memories * 40 * Scale
                  + SumSeq(importance_scores) * 30
                  + SumSeq(decay_strengths) * 30 )
                    \div (Max(total_memories, 1) * Scale))
    IN  IF all_memories = <<>> THEN [kind |-> "error"]
        ELSE [ kind |-> "health", total_memories |-> total_memories,
               active_memories |-> active_memories,
               archived_memories |-> total_memories - active_memories,
               health_score |-> health_score,
               health_status |-> _get_health_status(health_score) ]

\* Up to MaxHealth records as insertions and maintenance leave them: the
\* importance as given or recomputed, the decay strength missing or
\* persisted, archived or not.
InitHealth ==
    /\ \E n \in 0..MaxHealth :
          \E f \in [1..n -> {0, 500, Scale, 1500} \X {Absent, 50} \X BOOLEAN] :
              store = [i \in 1..n |->
                  [ id |-> i, content |-> TCat,
                    metadata |-> Merge(EmptyMeta,
                        [ memory_type |-> "fact", importance |-> f[i][1],
                          timestamp |-> 0, access_count |-> 0,
                          last_accessed |-> 0, decay_strength |-> f[i][2],
                          is_archived |-> f[i][3] ]) ]]
    /\ nextId = MaxHealth + 1
    /\ tick = 0
    /\ runs = 0
    /\ last = Did("init", <<>>, <<>>)
    /\ inp = NoInput
    /\ out = NoInput

GetMemoryHealthMetrics ==
    /\ out = NoInput
    /\ out' = get_memory_health_metrics(store)
    /\ UNCHANGED <<store, nextId, tick, runs, last, inp>>

SpecHealth == InitHealth /\ [][GetMemoryHealthMetrics]_vars

\* 1000 * total * (40*(active/total) + 30*avg_importance + 30*avg_decay_strength)
\* for the records of the store.
HealthSumOfStore ==
    40 * Scale * Cardinality(Active(store))
    + SumSeq([i \in DOMAIN store |->
                 30 * GetOr(store[i].metadata.importance, 500)
                 + 30 * GetOr(store[i].metadata.decay_strength, Scale)])

HealthStatusAsStated ==
    /\ out.health_status = "Excellent" <=> out.health_score >= 80
    /\ out.health_status = "Good" <=>
           (out.health_score >= 60 /\ out.health_score < 80)
    /\ out.health_status = "Fair" <=>
           (out.health_score >= 40 /\ out.health_score < 60)
    /\ out.health_status = "Poor" <=> out.health_score < 40

----------------------------------------------------------------------------
(* process_extracted_information on extractions of several types *)

MaxCalls == 2
MaxPreferences == 2

TDoctor == <<"I", "am", "a", "doctor">>

\* Extraction results with at most one fact and up to MaxPreferences
\* preferences, no preference listed twice.
TypedExtractions ==
    { [facts |-> f, preferences |-> p, confidence |-> 900] :
        f \in {<<>>, <<TCat>>, <<TDoctor>>},
        p \in UNION { { q \in [1..n -> {TPrefHome, TPrefOffice}] :
                          \A i, j \in 1..n : i # j => q[i] # q[j] } :
                        n \in 0..MaxPreferences } }

InitCommit ==
    /\ store = <<>>
    /\ nextId = 1
    /\ tick = 0
    /\ runs = 0
    /\ last = Did("init", <<>>, <<>>)
    /\ inp = NoInput
    /\ out = NoInput

\* One turn: inp keeps the extraction result, out what the call returned and
\* the records each candidate was scanned against.
ProcessExtractedInformation ==
    /\ runs < MaxCalls
    /\ \E extraction_result \in TypedExtractions :
          LET r == process_extracted_information(store, nextId,
                       extraction_result, Now)
          IN  /\ store' = r.store
              /\ nextId' = r.nextId
              /\ inp' = [kind |-> "extraction", extraction_result |-> extraction_result]
              /\ out' = [kind |-> "processed", processed |-> r.processed,
                         scanned |-> r.scanned]
    /\ runs' = runs + 1
    /\ last' = Did("process_extracted_information", <<>>, <<>>)
    /\ UNCHANGED tick

SpecCommit == InitCommit /\ [][ProcessExtractedInformation]_vars

\* C27 (as the specification states it): every record the extraction
\* pipeline commits is stored with the memory type the classifier assigned
\* to its candidate, so that a later candidate of the same classified type is
\* compared against it by the same-type conflict scan.
C27_CommittedWithTheClassifiedType ==
    [][ last'.op = "process_extracted_information" =>
          \A i \in DOMAIN store' :
              store'[i].id \notin Ids(store) =>
                  store'[i].metadata.memory_type = classify_type(store'[i].content)
      ]_vars

----------------------------------------------------------------------------
(* The snapshot of existing records within one call *)

\* C28: within one process_extracted_information call, conflict scanning uses
\* the snapshot of existing records read at the start of the call: a record
\* committed for an earlier candidate of the same turn is never a conflict
\* target for a later candidate of that turn.
C28_ScanUsesTheSnapshot ==
    [][ last'.op = "process_extracted_information" =>
          \A k \in DOMAIN out'.scanned :
              out'.scanned[k].targets \subseteq Ids(store) ]_vars

\* A turn with two candidates on a store that holds "I prefer working from
\* home": the first candidate is paired with the stored record, the second,
\* which differs from the first candidate's text only, with none.
C28_Witness ==
    /\ out.kind = "processed"
    /\ runs = 2
    /\ Len(store) = 3
    /\ store[1].content = TPrefHome
    /\ out.scanned = << [content |-> TPrefOffice, targets |-> {store[1].id}],
                        [content |-> TPrefHome, targets |-> {}] >>
    /\ store[2].content = TPrefOffice
    /\ store[3].content = TPrefHome

----------------------------------------------------------------------------
(* What one call adds to the store and what it leaves alone *)

\* C30: in process_extracted_information, every candidate at or above the
\* importance floor results in exactly one new record being added to the
\* store, whether or not a conflict was found and whatever its resolution
\* (UPDATE or DELETE); an UPDATE resolution never changes the content of the
\* existing record, it only annotates its metadata.
C30_OneRecordPerCandidate ==
    [][ last'.op = "process_extracted_information" =>
          LET candidates ==
                  _build_candidate_records(inp'.extraction_result)
              eligible == SelectSeq(candidates,
                              LAMBDA c : c.metadata.importance >= 400)
              added == SubSeq(store', Len(store') - Len(eligible) + 1, Len(store'))
          IN  /\ Cardinality(Ids(store') \ Ids(store)) = Len(eligible)
              /\ Len(store') = Len(store) + Len(eligible)
              /\ \A k \in DOMAIN eligible :
                    /\ added[k].content = eligible[k].content
                    /\ added[k].id \notin Ids(store)
              /\ \A i \in DOMAIN store :
                    /\ store'[i].id = store[i].id
                    /\ store'[i].content = store[i].content ]_vars

\* A turn whose candidate is paired with the stored "I prefer working from
\* home" (the resolution is an UPDATE): the candidate is added, and the stored
\* record keeps its text.
C30_Witness ==
    /\ out.kind = "processed"
    /\ runs = 2
    /\ Len(store) = 2
    /\ store[1].content = TPrefHome
    /\ store[2].content = TPrefOffice
    /\ out.scanned = <<[content |-> TPrefOffice, targets |-> {store[1].id}]>>
    /\ out.processed = <<[what |-> "Added", content |-> TPrefOffice]>>

----------------------------------------------------------------------------
(* update_memory_metadata from a retrieval and from a maintenance run *)

MaxIncrements == 2

\* One record, and two callers of update_memory_metadata on it that run
\* independently of each other: a retrieval (_increment_access_count) and a
\* maintenance run (_update_importance_scores), each holding the memory dict
\* it read (with its id) and, between collection.get and collection.update,
\* the metadata that collection.get returned.  inp keeps both callers'
\* positions and local values, out the number of retrievals started.
InitRace ==
    /\ store = add_fact_memory(<<>>, 1, TCat, Scale, EmptyMeta, 0)
    /\ nextId = 2
    /\ tick = 0
    /\ runs = 0
    /\ last = Did("init", <<>>, <<>>)
    /\ inp = [ kind |-> "callers",
               retrieval |-> [pc |-> "idle", memory |-> EmptyMeta, current |-> EmptyMeta],
               maintenance |-> [pc |-> "idle", memory |-> EmptyMeta, current |-> EmptyMeta] ]
    /\ out = [kind |-> "retrievals", started |-> 0]

\* The retrieval reads the record it is going to return.
RetrievalReads ==
    /\ inp.retrieval.pc = "idle"
    /\ out.started < MaxIncrements
    /\ inp' = [inp EXCEPT !.retrieval =
                  [pc |-> "read", memory |-> store[1].metadata, current |-> EmptyMeta]]
    /\ out' = [out EXCEPT !.started = @ + 1]
    /\ last' = Did("retrieve_memories_advanced", <<>>, <<>>)
    /\ UNCHANGED <<store, nextId, tick, runs>>

\* update_memory_metadata, collection.get, called by _increment_access_count.
IncrementGet ==
    /\ inp.retrieval.pc = "read"
    /\ inp' = [inp EXCEPT !.retrieval.pc = "got",
                          !.retrieval.current = store[1].metadata]
    /\ last' = Did("_increment_access_count.get", <<>>, <<>>)
    /\ UNCHANGED <<store, nextId, tick, runs, out>>

\* update_memory_metadata, collection.update of {**current, **updates}.
IncrementUpdate ==
    /\ inp.retrieval.pc = "got"
    /\ store' = [store EXCEPT ![1].metadata =
                    Merge(inp.retrieval.current,
                        [ access_count |->
                              GetOr(inp.retrieval.memory.access_count, 0) + 1,
                          last_accessed |-> Now ])]
    /\ inp' = [inp EXCEPT !.retrieval.pc = "idle"]
    /\ last' = Did("_increment_access_count.update", <<>>, <<>>)
    /\ UNCHANGED <<nextId, tick, runs, out>>

\* The maintenance run reads the list of memories.
MaintenanceReads ==
    /\ inp.maintenance.pc = "idle"
    /\ runs < MaxRuns
    /\ inp' = [inp EXCEPT !.maintenance =
                  [pc |-> "read", memory |-> store[1].metadata, current |-> EmptyMeta]]
    /\ runs' = runs + 1
    /\ last' = Did("daily_maintenance", <<>>, <<>>)
    /\ UNCHANGED <<store, nextId, tick, out>>

\* update_memory_metadata, collection.get, called by _update_importance_scores.
MaintenanceGet ==
    /\ inp.maintenance.pc = "read"
    /\ inp' = [inp EXCEPT !.maintenance.pc = "got",
                          !.maintenance.current = store[1].metadata]
    /\ last' = Did("_update_importance_scores.get", <<>>, <<>>)
    /\ UNCHANGED <<store, nextId, tick, runs, out>>

MaintenanceUpdate ==
    /\ inp.maintenance.pc = "got"
    /\ store' = [store EXCEPT ![1].metadata =
                    Merge(inp.maintenance.current,
                        [ importance |-> NewImportance(inp.maintenance.memory, Now),
                          decay_strength |->
                              calculate_decay_strength(inp.maintenance.memory, Now),
                          last_maintenance |-> Now ])]
    /\ inp' = [inp EXCEPT !.maintenance.pc = "idle"]
    /\ last' = Did("_update_importance_scores.update", <<>>, <<>>)
    /\ UNCHANGED <<nextId, tick, runs, out>>

NextRace ==
    \/ RetrievalReads
    \/ IncrementGet
    \/ IncrementUpdate
    \/ MaintenanceReads
    \/ MaintenanceGet
    \/ MaintenanceUpdate
    \/ Tick

SpecRace == InitRace /\ [][NextRace]_vars

====
